---------------------------- MODULE Spec2Model ----------------------------
(***************************************************************************)
(* A model of the Proposal Analyzer core:                                  *)
(*   - services/spell_checking_service.py: _chunk_text,                    *)
(*     _call_llm_for_correction (offset reconciliation) and                *)
(*     check_document_text;                                                *)
(*   - proposal_analyzer/rules_engine.py: evaluate;                        *)
(*   - proposal_analyzer/llm_client.py: query;                             *)
(*   - proposal_analyzer/analyzer.py: analyze, with loaders.load_txt;      *)
(*   - utils/text_extraction.py: the text extractors.                      *)
(*                                                                         *)
(* A Python str is a sequence of one-character strings.  Python offsets    *)
(* are 0-based, TLA+ sequences 1-based: the operators below take and       *)
(* return Python offsets.                                                  *)
(***************************************************************************)
EXTENDS Integers, Sequences, FiniteSets, TLC

VARIABLES chunker, reconciler, checker, evaluator, analyzer, extractor

vars == <<chunker, reconciler, checker, evaluator, analyzer, extractor>>

Idle == [pc |-> "idle"]

-----------------------------------------------------------------------------
(* Python built-ins used by the code                                       *)

Min(a, b) == IF a < b THEN a ELSE b

Max(a, b) == IF a > b THEN a ELSE b

\* All sequences over A of length 0..n.
TextsUpTo(A, n) == UNION {[1..k -> A] : k \in 0..n}

\* n copies of the character c.
Repeat(c, n) == [i \in 1..n |-> c]

\* Python's None, and a str value, as values of an Optional[str].
NoneValue == [is_none |-> TRUE, text |-> << >>]

Some(text) == [is_none |-> FALSE, text |-> text]

\* The index adjustment CPython applies to the start/end arguments of a
\* slice and of str.find / str.rfind / str.count: a negative index counts
\* from the end, and the result is clamped to 0..len.
AdjustIndex(i, n) == IF i < 0 THEN Max(i + n, 0) ELSE Min(i, n)

\* s[a:b]
Slice(s, a, b) ==
    LET lo == AdjustIndex(a, Len(s))
        hi == AdjustIndex(b, Len(s))
    IN  IF hi <= lo THEN << >> ELSE SubSeq(s, lo + 1, hi)

\* The offsets at which sub occurs in s wholly inside s[start:end], start
\* and end as given to find / rfind / count.  CPython clamps end to len(s)
\* and leaves a start beyond it alone: nothing, the empty string included,
\* is found from a start beyond the end.
Occurrences(s, sub, start, end) ==
    LET lo == IF start < 0 THEN Max(start + Len(s), 0) ELSE start
        hi == AdjustIndex(end, Len(s))
    IN  {i \in lo..(hi - Len(sub)) : SubSeq(s, i + 1, i + Len(sub)) = sub}

SetMin(S) == CHOOSE x \in S : \A y \in S : x <= y

SetMax(S) == CHOOSE x \in S : \A y \in S : x >= y

\* s.find(sub, start, end): the lowest offset, or -1.
Find(s, sub, start, end) ==
    LET occ == Occurrences(s, sub, start, end)
    IN  IF occ = {} THEN -1 ELSE SetMin(occ)

\* s.find(sub)
FindAll(s, sub) == Find(s, sub, 0, Len(s))

\* s.rfind(sub, start, end): the highest offset, or -1.
RFind(s, sub, start, end) ==
    LET occ == Occurrences(s, sub, start, end)
    IN  IF occ = {} THEN -1 ELSE SetMax(occ)

\* A count that takes in the character at end as well.
CountInclusive(s, c, start, end) ==
    Cardinality(Occurrences(s, <<c>>, start, end + 1))

\* s.count(c, start, end) for a one-character c.
Count(s, c, start, end) == Cardinality(Occurrences(s, <<c>>, start, end))

\* str.isspace() for the characters of the model's alphabets; the last of
\* them is the no-break space U+00A0, which str.isspace() accepts too.
IsSpace(c) == c \in {" ", "\n", "\r", "\t", "\f", " "}

\* s.lstrip()
RECURSIVE LStrip(_)
LStrip(s) ==
    IF s = << >> THEN << >>
    ELSE IF IsSpace(Head(s)) THEN LStrip(Tail(s)) ELSE s

\* s.rstrip()
RECURSIVE RStrip(_)
RStrip(s) ==
    IF s = << >> THEN << >>
    ELSE IF IsSpace(s[Len(s)]) THEN RStrip(SubSeq(s, 1, Len(s) - 1)) ELSE s

\* s.strip()
Strip(s) == RStrip(LStrip(s))

\* re.sub(r'\r\n|\r', '\n', s): left to right, "\r\n" before "\r".
RECURSIVE ReplaceCarriageReturns(_)
ReplaceCarriageReturns(s) ==
    IF s = << >> THEN << >>
    ELSE IF Head(s) = "\r"
         THEN IF Len(s) >= 2 /\ s[2] = "\n"
              THEN <<"\n">> \o ReplaceCarriageReturns(SubSeq(s, 3, Len(s)))
              ELSE <<"\n">> \o ReplaceCarriageReturns(Tail(s))
         ELSE <<Head(s)>> \o ReplaceCarriageReturns(Tail(s))

\* A text without "\r" has no match and is returned as it is.
NormalizeNewlines(s) ==
    IF \A i \in 1..Len(s) : s[i] # "\r" THEN s ELSE ReplaceCarriageReturns(s)

-----------------------------------------------------------------------------
(* SpellCheckingService._chunk_text                                        *)

\* Bounds of the chunker's inputs.
MaxTextLen == 4
MaxChunkSize == 3
MaxOverlap == 4

\* A window that always ends at its nominal end.
WindowEndNominal(text, cur, chunk_size) == Min(cur + chunk_size, Len(text))

\* Lines 111-119: the end of the window starting at cur, moved back to a
\* sentence boundary or to a space when the window stops short of the text.
WindowEnd(text, cur, chunk_size) ==
    LET text_len == Len(text)
        end0 == Min(cur + chunk_size, text_len)
        sentence_break == RFind(text, <<".", " ">>, cur, end0 + 1)
        space_break == RFind(text, <<" ">>, cur, end0)
    IN  IF end0 < text_len
        THEN IF sentence_break # -1 /\ sentence_break > cur
             THEN sentence_break + 1
             ELSE IF space_break # -1 /\ space_break > cur
                  THEN space_break
                  ELSE end0
        ELSE end0

\* A cursor advance that starts the next window after the end of this one.
NextCursorSkip(end_char_offset, overlap, cur) == end_char_offset + 1

\* A cursor advance without the clamp to cursor + 1.
NextCursorNoClamp(end_char_offset, overlap, cur) == end_char_offset - overlap

\* Lines 132-133: the next cursor, at least cursor + 1.
NextCursor(end_char_offset, overlap, cur) ==
    LET new_start_offset == end_char_offset - overlap
    IN  Max(new_start_offset,
            IF new_start_offset <= cur THEN cur + 1 ELSE new_start_offset)

\* A window text kept as it is in the text.
WindowTextUntrimmed(text, cur, end_char_offset) ==
    Slice(text, cur, end_char_offset)

\* Line 120: the text of the window, stripped.
WindowText(text, cur, end_char_offset) ==
    Strip(Slice(text, cur, end_char_offset))

\* Lines 110-135: one iteration of the while loop on the loop state st.
ChunkIterate(st) ==
    LET text == st.normalized_text
        text_len == Len(text)
        cur == st.current_char_offset
        end_char_offset == WindowEnd(text, cur, st.chunk_size)
        chunk_text_content == WindowText(text, cur, end_char_offset)
        newlines_since_last_chunk ==
            Count(text, "\n", st.processed_chars_for_line_counting, cur)
        line == st.current_line_number + newlines_since_last_chunk
        appended ==
            IF chunk_text_content # << >>
            THEN Append(st.chunks_info,
                        [text_content |-> chunk_text_content,
                         start_offset_abs |-> cur,
                         start_line_abs |-> line])
            ELSE st.chunks_info
        next == NextCursor(end_char_offset, st.overlap, cur)
    IN  IF end_char_offset = text_len
        THEN [st EXCEPT !.pc = "done",
                        !.end_char_offset = end_char_offset,
                        !.current_line_number = line,
                        !.processed_chars_for_line_counting = cur,
                        !.chunks_info = appended]
        ELSE [st EXCEPT !.pc = IF next >= text_len THEN "done" ELSE "loop",
                        !.current_char_offset = next,
                        !.end_char_offset = end_char_offset,
                        !.current_line_number = line,
                        !.processed_chars_for_line_counting = cur,
                        !.chunks_info = appended]

\* Lines 102-109: the state on entry (an empty text returns at once).
ChunkEnter(text, chunk_size, overlap) ==
    [pc |-> IF text = << >> THEN "done" ELSE "loop",
     text |-> text,
     chunk_size |-> chunk_size,
     overlap |-> overlap,
     normalized_text |-> IF text = << >> THEN << >> ELSE NormalizeNewlines(text),
     current_char_offset |-> 0,
     end_char_offset |-> 0,
     current_line_number |-> 1,
     processed_chars_for_line_counting |-> 0,
     chunks_info |-> << >>]

RECURSIVE ChunkRun(_)
ChunkRun(st) == IF st.pc = "done" THEN st ELSE ChunkRun(ChunkIterate(st))

\* _chunk_text(text, chunk_size, overlap): the list it returns.
ChunkText(text, chunk_size, overlap) ==
    ChunkRun(ChunkEnter(text, chunk_size, overlap)).chunks_info

ChunkInit ==
    LET
        ChunkAlphabet == {"a", " ", ".", "\n", "\r"}
    IN
    /\ \E text \in TextsUpTo(ChunkAlphabet, MaxTextLen),
          chunk_size \in 1..MaxChunkSize,
          overlap \in 0..MaxOverlap :
            chunker = [ChunkEnter(text, chunk_size, overlap) EXCEPT !.pc = "call"]
    /\ reconciler = Idle
    /\ checker = Idle
    /\ evaluator = Idle
    /\ analyzer = Idle
    /\ extractor = Idle

\* The call: lines 102-109.
ChunkCall ==
    /\ chunker.pc = "call"
    /\ chunker' = ChunkEnter(chunker.text, chunker.chunk_size, chunker.overlap)
    /\ UNCHANGED <<reconciler, checker, evaluator, analyzer, extractor>>

\* One iteration of the while loop: lines 110-135.
ChunkStep ==
    /\ chunker.pc = "loop"
    /\ chunker.current_char_offset < Len(chunker.normalized_text)
    /\ chunker' = ChunkIterate(chunker)
    /\ UNCHANGED <<reconciler, checker, evaluator, analyzer, extractor>>

ChunkNext == ChunkCall \/ ChunkStep

\* The loop runs to its end once called: the code is sequential.
SpecChunk == ChunkInit /\ [][ChunkNext]_vars /\ WF_vars(ChunkNext)

\* C4: for every text, chunk_size >= 1 and overlap >= 0 (overlap >= chunk_size
\* included) _chunk_text terminates, and the chunks it has collected have
\* strictly increasing start_offset_abs.  Termination is stated by its
\* variant: every loop iteration either ends the call or moves the cursor
\* strictly forward while keeping it below len(text), and a call that has
\* not returned can always take its next step (the guard of ChunkCall or of
\* ChunkStep holds); so a call returns after at most len(text) iterations.
C4_ChunkTerminatesIncreasing ==
    /\ [][chunker.pc = "loop" =>
            \/ chunker'.pc = "done"
            \/ /\ chunker'.pc = "loop"
               /\ chunker'.current_char_offset > chunker.current_char_offset
               /\ chunker'.current_char_offset < Len(chunker.normalized_text)]_vars
    /\ [](\/ chunker.pc \in {"call", "done"}
          \/ /\ chunker.pc = "loop"
             /\ chunker.current_char_offset < Len(chunker.normalized_text))
    /\ [](\A i \in 1..(Len(chunker.chunks_info) - 1) :
            chunker.chunks_info[i].start_offset_abs
                < chunker.chunks_info[i + 1].start_offset_abs)

\* C4 witness: a finished run with overlap >= chunk_size that went through
\* the clamped advance more than once and returned several chunks.
C4_Witness ==
    /\ chunker.pc = "done"
    /\ chunker.overlap > chunker.chunk_size
    /\ Len(chunker.chunks_info) >= 3

\* The positions occupied by the chunks of a list.
CoveredPositions(text, chunks) ==
    LET
        \* The positions (0-based) of the normalized text that the text_content of
        \* a chunk occupies: text_content is the window from start_offset_abs on
        \* without its surrounding whitespace, so it begins at the first character
        \* at or after start_offset_abs that is not whitespace.
        ChunkSpan(chunk) ==
            LET first == SetMin({p \in chunk.start_offset_abs..(Len(text) - 1) :
                                    ~IsSpace(text[p + 1])})
            IN  first..(first + Len(chunk.text_content) - 1)
    IN
    UNION {ChunkSpan(chunks[i]) : i \in 1..Len(chunks)}

\* C15 as stated: the spans of the returned chunks cover the text from its
\* first to its last character, with no uncovered run of characters longer
\* than overlap.
C15_SpansCoverWithinOverlap ==
    (chunker.pc = "done" /\ chunker.text # << >>) =>
        LET text == chunker.normalized_text
            covered == CoveredPositions(text, chunker.chunks_info)
        IN  /\ 0 \in covered
            /\ (Len(text) - 1) \in covered
            /\ \A a \in 0..(Len(text) - 1) :
                  \A b \in a..(Len(text) - 1) :
                      (\A p \in a..b : p \notin covered) =>
                          b - a + 1 <= chunker.overlap

\* C15: the spans of the returned chunks cover every character of the
\* (newline-normalized) text that is not whitespace; the characters left
\* uncovered, at the ends of the text or between two chunks, are whitespace.
C15_NonWhitespaceCovered ==
    chunker.pc = "done" =>
        LET text == chunker.normalized_text
            covered == CoveredPositions(text, chunker.chunks_info)
        IN  \A p \in 0..(Len(text) - 1) :
                ~IsSpace(text[p + 1]) => p \in covered

\* A finished run with two chunks and, between them, an uncovered run of
\* whitespace longer than overlap.
C15_Witness ==
    /\ chunker.pc = "done"
    /\ Len(chunker.chunks_info) >= 2
    /\ LET text == chunker.normalized_text
           covered == CoveredPositions(text, chunker.chunks_info)
       IN  \E a \in 1..(Len(text) - 2) :
             \E b \in a..(Len(text) - 2) :
                /\ \A p \in a..b : p \notin covered
                /\ b - a + 1 > chunker.overlap
                /\ (a - 1) \in covered
                /\ (b + 1) \in covered

\* C16: every chunk _chunk_text collects has a text_content that is not
\* empty and has no leading or trailing whitespace; an iteration whose
\* window holds only whitespace adds no chunk; an empty text gives no chunk.
C16_ChunksNonEmptyTrimmed ==
    /\ [](\A i \in 1..Len(chunker.chunks_info) :
            LET text_content == chunker.chunks_info[i].text_content
            IN  /\ text_content # << >>
                /\ ~IsSpace(text_content[1])
                /\ ~IsSpace(text_content[Len(text_content)]))
    /\ [](chunker.text = << >> => chunker.chunks_info = << >>)
    /\ [][(/\ chunker.pc = "loop"
           /\ \A p \in chunker.current_char_offset..
                       (WindowEnd(chunker.normalized_text,
                                  chunker.current_char_offset,
                                  chunker.chunk_size) - 1) :
                  IsSpace(chunker.normalized_text[p + 1]))
            => chunker'.chunks_info = chunker.chunks_info]_vars

\* A finished run whose first window held whitespace only and gave no
\* chunk, and whose first chunk comes from a later window that begins with
\* whitespace, which its text_content does not carry.
C16_Witness ==
    /\ chunker.pc = "done"
    /\ chunker.chunks_info # << >>
    /\ chunker.chunk_size >= 2
    /\ LET text == chunker.normalized_text
           start == chunker.chunks_info[1].start_offset_abs
       IN  /\ start >= 1
           /\ \A p \in 0..start : IsSpace(text[p + 1])

\* C22 as stated: with overlap > 0 every chunk after the first starts
\* before the nominal window end of the chunk before it in the list,
\* start_offset_abs + min(chunk_size, len(text) - start_offset_abs).
C22_ChunkStartsBeforePreviousWindowEnd ==
    chunker.overlap > 0 =>
        \A i \in 1..(Len(chunker.chunks_info) - 1) :
            chunker.chunks_info[i + 1].start_offset_abs
                < chunker.chunks_info[i].start_offset_abs
                    + Min(chunker.chunk_size,
                          Len(chunker.normalized_text)
                            - chunker.chunks_info[i].start_offset_abs)

\* C22, amended: with overlap > 0 and chunk_size >= 2 every window of the
\* loop after the first starts before the nominal end of the window before
\* it, and no later than the end chosen for that window; a chunk of the list starts at or after the
\* nominal window end of the chunk before it only when windows of
\* whitespace, which give no chunk, lie between the two: the text from that
\* nominal end to the start of the chunk is whitespace.
C22_WindowStartsBeforePreviousWindowEnd ==
    /\ [][(/\ chunker.pc = "loop"
           /\ chunker'.pc = "loop"
           /\ chunker.overlap > 0
           /\ chunker.chunk_size >= 2)
            => /\ chunker'.current_char_offset <= chunker'.end_char_offset
               /\ chunker'.end_char_offset
                    <= chunker.current_char_offset
                        + Min(chunker.chunk_size,
                              Len(chunker.normalized_text)
                                - chunker.current_char_offset)
               /\ chunker'.current_char_offset
                    < chunker.current_char_offset
                        + Min(chunker.chunk_size,
                              Len(chunker.normalized_text)
                                - chunker.current_char_offset)]_vars
    /\ []((chunker.overlap > 0 /\ chunker.chunk_size >= 2) =>
            \A i \in 1..(Len(chunker.chunks_info) - 1) :
                LET text == chunker.normalized_text
                    start == chunker.chunks_info[i].start_offset_abs
                    nominal_end == start + Min(chunker.chunk_size, Len(text) - start)
                    next_start == chunker.chunks_info[i + 1].start_offset_abs
                IN  \/ next_start < nominal_end
                    \/ \A p \in (nominal_end - 1)..(next_start - 1) :
                          IsSpace(text[p + 1]))

\* C22 witness: a finished run with overlap >= chunk_size >= 2, whose cursor
\* moves are clamped, returned two chunks the second of which starts inside
\* the window of the first.
C22_Witness ==
    /\ chunker.pc = "done"
    /\ chunker.chunk_size >= 2
    /\ chunker.overlap >= chunker.chunk_size
    /\ Len(chunker.chunks_info) >= 2
    /\ chunker.chunks_info[2].start_offset_abs
          < chunker.chunks_info[1].start_offset_abs + chunker.chunk_size

\* C23: the start_line_abs of every chunk is 1 plus the number of newlines
\* of the normalized text before the start_offset_abs of the chunk, also
\* when windows of whitespace were skipped or the cursor move was clamped;
\* it is at least 1 and never decreases from one chunk to the next.
C23_StartLineCountsNewlinesBeforeStart ==
    /\ \A i \in 1..Len(chunker.chunks_info) :
          /\ chunker.chunks_info[i].start_line_abs
                = 1 + Cardinality({p \in 0..(chunker.chunks_info[i].start_offset_abs - 1) :
                                      chunker.normalized_text[p + 1] = "\n"})
          /\ chunker.chunks_info[i].start_line_abs >= 1
    /\ \A i \in 1..(Len(chunker.chunks_info) - 1) :
          chunker.chunks_info[i].start_line_abs
              <= chunker.chunks_info[i + 1].start_line_abs

\* C23 witness: a finished run returned two chunks that do not follow one
\* another directly: a window holding only a newline was skipped between
\* them, the cursor moves were clamped, and the second chunk starts on a
\* later line than the first.
C23_Witness ==
    /\ chunker.pc = "done"
    /\ chunker.overlap >= chunker.chunk_size
    /\ Len(chunker.chunks_info) = 2
    /\ chunker.chunks_info[1].start_line_abs = 1
    /\ chunker.chunks_info[2].start_line_abs >= 2
    /\ chunker.chunks_info[2].start_offset_abs
          >= chunker.chunks_info[1].start_offset_abs + chunker.chunk_size + 1

\* C24: a window that stops short of the end of the text ends just after
\* the period of the last ". " whose period lies in the window after its
\* first character; without one, at the last space of the window after its
\* first character; without either, at the nominal end.  So when the window
\* has a space after its first character, the character that follows the
\* end of the window is a space: the chunk does not end inside a word.
C24_WindowEndsAtSentenceOrSpace ==
    [][chunker.pc = "loop" =>
        LET text == chunker.normalized_text
            cur == chunker.current_char_offset
            nominal_end == Min(cur + chunker.chunk_size, Len(text))
            periods == {p \in (cur + 1)..(nominal_end - 1) :
                            text[p + 1] = "." /\ text[p + 2] = " "}
            spaces == {p \in (cur + 1)..(nominal_end - 1) : text[p + 1] = " "}
            end == chunker'.end_char_offset
        IN  IF nominal_end = Len(text) THEN end = nominal_end
            ELSE /\ periods # {} => end = SetMax(periods) + 1
                 /\ (periods = {} /\ spaces # {}) => end = SetMax(spaces)
                 /\ (periods = {} /\ spaces = {}) => end = nominal_end
                 /\ spaces # {} => text[end + 1] = " "]_vars

\* C24 witness: a finished run on the text "a. a" with windows of three
\* characters cut the first window, "a. ", just after its period although a
\* later space lay in it, and returned the chunk "a." first.
C24_Witness ==
    /\ chunker.pc = "done"
    /\ Len(chunker.chunks_info) >= 2
    /\ chunker.normalized_text = <<"a", ".", " ", "a">>
    /\ chunker.chunk_size = 3
    /\ chunker.chunks_info[1].text_content = <<"a", ".">>

-----------------------------------------------------------------------------
(* SpellCheckingService._call_llm_for_correction: offset reconciliation    *)

search_window_delta == 50

\* The reconciliation with the windowed search keeping the claimed start.
ReconcileOffsetsStale(chunk_text_content, llm_start_offset, llm_end_offset, llm_snippet) ==
    LET search_start == Max(0, llm_start_offset - search_window_delta)
        search_end == Min(Len(chunk_text_content),
                          llm_start_offset + Len(llm_snippet) + search_window_delta)
        try_find_pos == Find(chunk_text_content, llm_snippet, search_start, search_end)
    IN  IF try_find_pos # -1
        THEN [located |-> TRUE, by |-> "window",
              start |-> llm_start_offset,
              end |-> llm_start_offset + Len(llm_snippet)]
        ELSE [located |-> FALSE, by |-> "drop", start |-> -1, end |-> -1]

\* Lines 236-271 for one candidate: the offsets accepted for the snippet
\* the model claims at [llm_start_offset, llm_end_offset) of the chunk, or
\* located = FALSE when the finding is skipped.  "by" names the branch.
ReconcileOffsets(chunk_text_content, llm_start_offset, llm_end_offset, llm_snippet) ==
    LET search_start == Max(0, llm_start_offset - search_window_delta)
        search_end == Min(Len(chunk_text_content),
                          llm_start_offset + Len(llm_snippet) + search_window_delta)
        try_find_pos == Find(chunk_text_content, llm_snippet, search_start, search_end)
        try_find_pos_full_chunk == FindAll(chunk_text_content, llm_snippet)
    IN  IF /\ llm_start_offset >= 0
           /\ llm_end_offset > llm_start_offset
           /\ Slice(chunk_text_content, llm_start_offset, llm_end_offset) = llm_snippet
        THEN [located |-> TRUE, by |-> "direct",
              start |-> llm_start_offset, end |-> llm_end_offset]
        ELSE IF try_find_pos # -1
        THEN [located |-> TRUE, by |-> "window",
              start |-> try_find_pos, end |-> try_find_pos + Len(llm_snippet)]
        ELSE IF try_find_pos_full_chunk # -1
        THEN [located |-> TRUE, by |-> "full",
              start |-> try_find_pos_full_chunk,
              end |-> try_find_pos_full_chunk + Len(llm_snippet)]
        ELSE [located |-> FALSE, by |-> "drop", start |-> -1, end |-> -1]

\* The loop ending at the first finding that is not located (break).
RECURSIVE ValidatedFindingsBreak(_, _)
ValidatedFindingsBreak(chunk_text_content, findings) ==
    IF findings = << >> THEN << >>
    ELSE LET finding == Head(findings)
             r == ReconcileOffsets(chunk_text_content,
                                   finding.start_offset_in_chunk,
                                   finding.end_offset_in_chunk,
                                   finding.original_snippet_text)
         IN  IF r.located
             THEN <<[finding EXCEPT !.start_offset_in_chunk = r.start,
                                    !.end_offset_in_chunk = r.end]>>
                  \o ValidatedFindingsBreak(chunk_text_content, Tail(findings))
             ELSE << >>

\* Lines 223-277: the loop over the parsed findings; an accepted finding
\* keeps its fields and takes the reconciled offsets, a finding that is not
\* located is skipped (continue).
RECURSIVE ValidatedFindings(_, _)
ValidatedFindings(chunk_text_content, findings) ==
    IF findings = << >> THEN << >>
    ELSE LET finding == Head(findings)
             r == ReconcileOffsets(chunk_text_content,
                                   finding.start_offset_in_chunk,
                                   finding.end_offset_in_chunk,
                                   finding.original_snippet_text)
             rest == ValidatedFindings(chunk_text_content, Tail(findings))
         IN  IF r.located
             THEN <<[finding EXCEPT !.start_offset_in_chunk = r.start,
                                    !.end_offset_in_chunk = r.end]>> \o rest
             ELSE rest

\* _call_llm_for_correction(chunk_text_content, chunk_index) when the model
\* answers `response`: [parsed, findings].  parsed = FALSE stands for every
\* response from which lines 179-220 obtain no list of findings (no JSON
\* found, invalid JSON, a gateway error string): the call returns [].
CallLLMForCorrection(chunk_text_content, response) ==
    IF Strip(chunk_text_content) = << >> THEN << >>
    ELSE IF ~response.parsed THEN << >>
    ELSE ValidatedFindings(chunk_text_content, response.findings)

Teh == <<"t","e","h">>

\* Bound of the generated chunks of the reconciler's inputs.
MaxChunkLen == 3

ReconcileInit ==
    LET
        \* Chunks that reach the reconciliation: line 143 returns [] for a blank one.
        ReconcileChunks ==
            LET
                \* The spec's example chunks, and a chunk longer than the search window in
                \* which "teh" occurs at 0 and again at 63.
                HelloChunk == <<"H","e","l","l","o"," ","t","e","h"," ","w","o","r","l","d">>
                AaaaChunk == <<"A","A","A","A"," ","t","e","h"," ","B","B","B","B">>
                LongChunk == Teh \o Repeat("a", 60) \o Teh
            IN
            {c \in TextsUpTo({"t", "e", "h"}, MaxChunkLen) : Strip(c) # << >>}
                \cup {HelloChunk, AaaaChunk, LongChunk}
        ReconcileSnippets == {Teh, <<"t">>, <<"e","h">>, <<"z">>, << >>}
        ClaimedOffsets == {-120, -60, -1, 0, 1, 2, 3, 5, 6, 8, 9, 20, 62, 63, 66, 130}
    IN
    /\ \E chunk \in ReconcileChunks, snippet \in ReconcileSnippets,
          start \in ClaimedOffsets, end \in ClaimedOffsets :
            reconciler = [pc |-> "call", chunk |-> chunk, snippet |-> snippet,
                          llm_start |-> start, llm_end |-> end,
                          result |-> ReconcileOffsets(<< >>, 0, 0, <<"z">>)]
    /\ chunker = Idle
    /\ checker = Idle
    /\ evaluator = Idle
    /\ analyzer = Idle
    /\ extractor = Idle

\* Lines 236-271 applied to the candidate.
Reconcile ==
    /\ reconciler.pc = "call"
    /\ reconciler' = [reconciler EXCEPT
                        !.pc = "done",
                        !.result = ReconcileOffsets(reconciler.chunk,
                                                    reconciler.llm_start,
                                                    reconciler.llm_end,
                                                    reconciler.snippet)]
    /\ UNCHANGED <<chunker, checker, evaluator, analyzer, extractor>>

SpecReconcile == ReconcileInit /\ [][Reconcile]_vars

-----------------------------------------------------------------------------
(* SpellCheckingService.check_document_text                                *)

\* The defaults of _chunk_text, which check_document_text relies on.
DEFAULT_CHUNK_SIZE == 6000
DEFAULT_OVERLAP == 600

\* A record with the line of the issue whatever the source of the text.
IssueWithLocationAlwaysLines(normalized_full_text, is_pdf_source, chunk_info, i, issue) ==
    LET abs_start_offset == chunk_info.start_offset_abs + issue.start_offset_in_chunk
        abs_end_offset == chunk_info.start_offset_abs + issue.end_offset_in_chunk
        line_start_char == RFind(normalized_full_text, <<"\n">>, 0, abs_start_offset) + 1
        found_end == Find(normalized_full_text, <<"\n">>, abs_start_offset,
                          Len(normalized_full_text))
        line_end_char == IF found_end = -1 THEN Len(normalized_full_text) ELSE found_end
    IN  [original_snippet |-> issue.original_snippet_text,
         suggestion |-> issue.suggestion,
         type |-> issue.type,
         line_number |-> Count(normalized_full_text, "\n", 0, abs_start_offset) + 1,
         line_with_error |->
            Some(Strip(Slice(normalized_full_text, line_start_char, line_end_char))),
         char_offset_start_in_doc |-> abs_start_offset,
         char_offset_end_in_doc |-> abs_end_offset,
         chunk_index |-> i,
         explanation |-> issue.explanation]

\* Lines 312-334: the document-level record of one issue of chunk i.
IssueWithLocation(normalized_full_text, is_pdf_source, chunk_info, i, issue) ==
    LET abs_start_offset == chunk_info.start_offset_abs + issue.start_offset_in_chunk
        abs_end_offset == chunk_info.start_offset_abs + issue.end_offset_in_chunk
        line_start_char == RFind(normalized_full_text, <<"\n">>, 0, abs_start_offset) + 1
        found_end == Find(normalized_full_text, <<"\n">>, abs_start_offset,
                          Len(normalized_full_text))
        line_end_char == IF found_end = -1 THEN Len(normalized_full_text) ELSE found_end
    IN  [original_snippet |-> issue.original_snippet_text,
         suggestion |-> issue.suggestion,
         type |-> issue.type,
         line_number |->
            IF is_pdf_source THEN -1
            ELSE Count(normalized_full_text, "\n", 0, abs_start_offset) + 1,
         line_with_error |->
            IF is_pdf_source THEN NoneValue
            ELSE Some(Strip(Slice(normalized_full_text, line_start_char, line_end_char))),
         char_offset_start_in_doc |-> abs_start_offset,
         char_offset_end_in_doc |-> abs_end_offset,
         chunk_index |-> i,
         explanation |-> issue.explanation]

\* Lines 311-334 for the issues of one chunk, in order.
IssuesWithLocations(normalized_full_text, is_pdf_source, chunk_info, i, chunk_issues) ==
    [k \in 1..Len(chunk_issues) |->
        IssueWithLocation(normalized_full_text, is_pdf_source, chunk_info, i,
                          chunk_issues[k])]

\* Bounds of the documents and of the model's answers.
MaxDocLen == 3
MaxFindings == 2

Responses ==
    LET
        \* The lists of candidate findings the model may answer with: the i-th
        \* candidate carries the suggestion SuggestionTag[i].
        FindingLists ==
            LET
                SuggestionTag == <<"fix1", "fix2", "fix3", "fix4">>
                \* What the model may claim: a snippet with its claimed offsets.
                Claims ==
                    {<<snippet, start, start + Len(snippet)>> :
                        snippet \in {<<"t">>, <<"t", "e">>, <<"x">>}, start \in {0, 1, 70}}
                        \cup {<<<<"t">>, 0, 9>>}
                \* A candidate finding as the model reports it.
                Candidate(snippet, start, end, suggestion) ==
                    [original_snippet_text |-> snippet,
                     suggestion |-> suggestion,
                     type |-> "spelling",
                     start_offset_in_chunk |-> start,
                     end_offset_in_chunk |-> end,
                     explanation |-> "why"]
            IN
            UNION {{[i \in 1..n |-> Candidate(cl[i][1], cl[i][2], cl[i][3], SuggestionTag[i])] :
                        cl \in [1..n -> Claims]} : n \in 0..MaxFindings}
    IN
    {[parsed |-> FALSE, findings |-> << >>]}
        \cup {[parsed |-> TRUE, findings |-> f] : f \in FindingLists}

Init ==
    LET
        Documents ==
            LET
                DocAlphabet == {"t", "e", " ", "\n"}
                \* Documents with carriage returns, which the normalization rewrites.
                CarriageReturnDocs ==
                    {<<"t", "\r", "\n", "t", "e">>, <<"\r", "t", "e">>, <<"t", "\r", "t">>}
            IN
            TextsUpTo(DocAlphabet, MaxDocLen) \cup CarriageReturnDocs
        NoCall == [chunk_text_content |-> << >>,
                   response |-> [parsed |-> FALSE, findings |-> << >>],
                   chunk_issues |-> << >>]
    IN
    /\ \E document_text \in Documents, is_pdf_source \in BOOLEAN :
          checker = [pc |-> "call",
                     document_text |-> document_text,
                     is_pdf_source |-> is_pdf_source,
                     normalized_full_text |-> << >>,
                     chunks_info |-> << >>,
                     i |-> 0,
                     llm_calls |-> << >>,
                     last |-> NoCall,
                     all_issues_with_locations |-> << >>]
    /\ chunker = Idle
    /\ reconciler = Idle
    /\ evaluator = Idle
    /\ analyzer = Idle
    /\ extractor = Idle

\* Lines 302-306: normalize and chunk; an empty document, or one without a
\* chunk, returns [] at once.
CheckCall ==
    /\ checker.pc = "call"
    /\ LET normalized_full_text == NormalizeNewlines(checker.document_text)
           chunks_info == ChunkText(normalized_full_text, DEFAULT_CHUNK_SIZE,
                                    DEFAULT_OVERLAP)
       IN  checker' =
             IF checker.document_text = << >> \/ chunks_info = << >>
             THEN [checker EXCEPT !.pc = "returned"]
             ELSE [checker EXCEPT !.pc = "loop",
                                  !.normalized_full_text = normalized_full_text,
                                  !.chunks_info = chunks_info]
    /\ UNCHANGED <<chunker, reconciler, evaluator, analyzer, extractor>>

\* Lines 307-334: one iteration of the loop over the chunks, with the
\* model's answer to the chunk; line 335 after the last chunk.
CheckChunk ==
    /\ checker.pc = "loop"
    /\ checker.i < Len(checker.chunks_info)
    /\ \E response \in Responses :
          LET chunk_info == checker.chunks_info[checker.i + 1]
              chunk_issues == CallLLMForCorrection(chunk_info.text_content, response)
          IN  checker' =
                [checker EXCEPT
                    !.pc = IF checker.i + 1 = Len(checker.chunks_info)
                           THEN "returned" ELSE "loop",
                    !.i = checker.i + 1,
                    !.llm_calls = Append(checker.llm_calls, checker.i),
                    !.last = [chunk_text_content |-> chunk_info.text_content,
                              response |-> response,
                              chunk_issues |-> chunk_issues],
                    !.all_issues_with_locations =
                        checker.all_issues_with_locations \o
                        IssuesWithLocations(checker.normalized_full_text,
                                            checker.is_pdf_source, chunk_info,
                                            checker.i, chunk_issues)]
    /\ UNCHANGED <<chunker, reconciler, evaluator, analyzer, extractor>>

Next == CheckCall \/ CheckChunk

Spec == Init /\ [][Next]_vars

\* C1: every finding _call_llm_for_correction returns for a chunk satisfies
\* chunk_text[start_offset_in_chunk:end_offset_in_chunk] ==
\* original_snippet_text (Python slicing); a candidate for which this cannot
\* be established is not among the findings returned.
C1_ReturnedFindingsMatchChunk ==
    \A k \in 1..Len(checker.last.chunk_issues) :
        LET f == checker.last.chunk_issues[k]
        IN  Slice(checker.last.chunk_text_content,
                  f.start_offset_in_chunk, f.end_offset_in_chunk)
                = f.original_snippet_text

\* C1 witness: a call that returned a finding whose claimed offsets were
\* wrong and were replaced, next to a candidate that was not returned.
C1_Witness ==
    /\ Len(checker.last.response.findings) = 2
    /\ Len(checker.last.chunk_issues) = 1
    /\ checker.last.chunk_issues[1].start_offset_in_chunk
         # checker.last.response.findings[1].start_offset_in_chunk
    /\ checker.last.chunk_issues[1].suggestion = "fix1"

\* C2: every finding check_document_text returns locates its snippet in the
\* newline-normalized document:
\* normalized_text[char_offset_start_in_doc:char_offset_end_in_doc] ==
\* original_snippet.
C2_DocumentOffsetsLocateSnippet ==
    \A k \in 1..Len(checker.all_issues_with_locations) :
        LET issue == checker.all_issues_with_locations[k]
        IN  Slice(checker.normalized_full_text,
                  issue.char_offset_start_in_doc, issue.char_offset_end_in_doc)
                = issue.original_snippet

\* C5: reconciliation of one candidate yields the claimed (start, end)
\* unchanged when 0 <= start < end and chunk[start:end] == snippet; otherwise
\* the position found by literal search inside
\* chunk[max(0, start-50) : min(len(chunk), start+len(snippet)+50)];
\* otherwise the position found in the whole chunk; and the accepted end is
\* always the accepted start + len(snippet).
C5_ReconciliationOrderAndEnd ==
    reconciler.pc = "done" =>
        LET chunk == reconciler.chunk
            snippet == reconciler.snippet
            start == reconciler.llm_start
            end == reconciler.llm_end
            res == reconciler.result
            direct == 0 <= start /\ start < end /\ Slice(chunk, start, end) = snippet
            in_window == Find(chunk, snippet, Max(0, start - 50),
                              Min(Len(chunk), start + Len(snippet) + 50))
            in_chunk == FindAll(chunk, snippet)
        IN  /\ direct => res.located /\ res.start = start /\ res.end = end
            /\ ~direct /\ in_window # -1 => res.located /\ res.start = in_window
            /\ ~direct /\ in_window = -1 /\ in_chunk # -1 =>
                    res.located /\ res.start = in_chunk
            /\ res.located => res.end = res.start + Len(snippet)

\* C27: a candidate is dropped if and only if its snippet occurs nowhere in
\* the chunk, and a candidate that is accepted is accepted at the offsets of
\* an occurrence of its snippet: the accepted start is a position of the
\* chunk at which the snippet stands, and the accepted end is the end of
\* that occurrence.
C27_DroppedIffSnippetAbsent ==
    reconciler.pc = "done" =>
        LET chunk == reconciler.chunk
            snippet == reconciler.snippet
            res == reconciler.result
            occurrences == {p \in 0..(Len(chunk) - Len(snippet)) :
                              \A k \in 1..Len(snippet) : chunk[p + k] = snippet[k]}
        IN  /\ ~res.located <=> occurrences = {}
            /\ res.located => /\ res.start \in occurrences
                              /\ res.end = res.start + Len(snippet)

\* C28: every accepted finding has a span that is not empty and lies inside
\* its chunk, 0 <= start < end <= len(chunk_text), for every snippet and
\* every pair of claimed offsets.
C28_AcceptedSpanInsideChunk ==
    (reconciler.pc = "done" /\ reconciler.result.located) =>
        /\ 0 <= reconciler.result.start
        /\ reconciler.result.start < reconciler.result.end
        /\ reconciler.result.end <= Len(reconciler.chunk)

\* Whether the snippet of candidate c occurs in the chunk of the last call.
OccursInLastChunk(c) ==
    FindAll(checker.last.chunk_text_content, c.original_snippet_text) # -1

\* C6: a candidate whose snippet occurs nowhere in its chunk is excluded from
\* the list returned for the chunk, and only that candidate is: the list is
\* shorter by exactly one per such candidate, and the other candidates are
\* returned in their original order with their fields (the offsets, which
\* reconciliation sets, apart) untouched.
C6_OnlyUnlocatableDropped ==
    checker.last.response.parsed =>
        LET cands == checker.last.response.findings
            out == checker.last.chunk_issues
            missing == {i \in 1..Len(cands) : ~OccursInLastChunk(cands[i])}
            kept == SelectSeq(cands, OccursInLastChunk)
        IN  /\ Len(out) = Len(cands) - Cardinality(missing)
            /\ Len(out) = Len(kept)
            /\ \A k \in 1..Len(kept) :
                  /\ out[k].original_snippet_text = kept[k].original_snippet_text
                  /\ out[k].suggestion = kept[k].suggestion
                  /\ out[k].type = kept[k].type
                  /\ out[k].explanation = kept[k].explanation

\* C6 witness: the first of two candidates names a snippet that is not in
\* the chunk, and the call returned the second one alone.
C6_Witness ==
    /\ checker.last.response.parsed
    /\ Len(checker.last.response.findings) = 2
    /\ ~OccursInLastChunk(checker.last.response.findings[1])
    /\ Len(checker.last.chunk_issues) = 1
    /\ checker.last.chunk_issues[1].suggestion = "fix2"

-----------------------------------------------------------------------------
(* SpellCheckingService._call_llm_for_correction: the response text        *)

\* A JSON scalar: an integer, a number with a fraction (whole.tenths, not
\* negative), a string or null.
JInt(n) == [k |-> "int", n |-> n, tenths |-> 0, s |-> << >>]

JFloat(n, tenths) == [k |-> "float", n |-> n, tenths |-> tenths, s |-> << >>]

JStr(s) == [k |-> "str", n |-> 0, tenths |-> 0, s |-> s]

JNull == [k |-> "null", n |-> 0, tenths |-> 0, s |-> << >>]

RequiredKeys ==
    {"original_snippet_text", "suggestion", "type",
     "start_offset_in_chunk", "end_offset_in_chunk"}

\* An element of the JSON list of a response: an object with the keys `has`
\* (the values of suggestion, type and explanation are strings), or a value
\* that is not an object: a string, a number, null, or an empty list.
JObject(has, snippet, start, end, suggestion) ==
    [shape |-> "object", has |-> has, snippet |-> snippet, start |-> start,
     end |-> end, suggestion |-> suggestion]

JOther(shape) ==
    [shape |-> shape, has |-> {}, snippet |-> JNull, start |-> JNull,
     end |-> JNull, suggestion |-> ""]

\* The response text as the sequence of its lexical units.  The code looks
\* at the text for the markdown fences, the first "[" and "{", the last "]"
\* and "}", and passes what lies between to json.loads: a unit is one of
\* these marks, a comma, a whitespace character, a piece of other text
\* ("text", which holds none of the marks), the members of a JSON object
\* ("members", the text between its braces), or a JSON scalar ("scalar").
Unit(tok) == [tok |-> tok, el |-> JOther("null")]

MembersUnit(object) == [tok |-> "members", el |-> object]

ScalarUnit(shape) == [tok |-> "scalar", el |-> JOther(shape)]

IsSpaceUnit(u) == u.tok \in {" ", "\n"}

\* A search that gives the last position where the first is asked for.
FindUnitLast(raw, toks) ==
    LET at == {p \in 0..(Len(raw) - 1) : raw[p + 1].tok \in toks}
    IN  IF at = {} THEN -1 ELSE SetMax(at)

\* The first position (0-based) of a unit with a mark of toks, or -1.
FindUnit(raw, toks) ==
    LET at == {p \in 0..(Len(raw) - 1) : raw[p + 1].tok \in toks}
    IN  IF at = {} THEN -1 ELSE SetMin(at)

\* The last position (0-based) of a unit with a mark of toks, or -1.
RFindUnit(raw, toks) ==
    LET at == {p \in 0..(Len(raw) - 1) : raw[p + 1].tok \in toks}
    IN  IF at = {} THEN -1 ELSE SetMax(at)

\* units.strip()
RECURSIVE StripUnits(_)
StripUnits(units) ==
    IF units = << >> THEN << >>
    ELSE IF IsSpaceUnit(Head(units)) THEN StripUnits(Tail(units))
    ELSE IF IsSpaceUnit(units[Len(units)])
         THEN StripUnits(SubSeq(units, 1, Len(units) - 1))
         ELSE units

\* Lines 180-212: the text handed to json.loads.  Line 183 searches the
\* first opening markdown fence (three backquotes and json, "fence_json")
\* that a later fence of three backquotes ("fence") closes (the backquotes
\* of a second opening fence close it as well) and takes what lies between
\* the two without the whitespace around it; without
\* one, lines 188-205 take the span from the first "[" or "{", whichever
\* comes first, to the last "]" or "}" respectively.
ExtractJson(raw_response) ==
    LET fences == {"fence_json", "fence"}
        opened == {p \in 0..(Len(raw_response) - 1) :
                      /\ raw_response[p + 1].tok = "fence_json"
                      /\ \E q \in (p + 1)..(Len(raw_response) - 1) :
                            raw_response[q + 1].tok \in fences}
        open == SetMin(opened)
        close == SetMin({q \in (open + 1)..(Len(raw_response) - 1) :
                            raw_response[q + 1].tok \in fences})
        first_bracket == FindUnit(raw_response, {"["})
        first_curly == FindUnit(raw_response, {"{"})
        as_list == first_bracket # -1
                     /\ (first_curly = -1 \/ first_bracket < first_curly)
        as_object == first_curly # -1
                       /\ (first_bracket = -1 \/ first_curly < first_bracket)
        start_json_pos == IF as_list THEN first_bracket
                          ELSE IF as_object THEN first_curly ELSE -1
        end_json_pos == IF as_list THEN RFindUnit(raw_response, {"]"})
                        ELSE IF as_object THEN RFindUnit(raw_response, {"}"})
                        ELSE -1
        json_str ==
            IF opened # {}
            THEN StripUnits(SubSeq(raw_response, open + 2, close))
            ELSE StripUnits(SubSeq(raw_response, start_json_pos + 1,
                                   end_json_pos + 1))
    IN  IF opened = {} /\ ~(start_json_pos # -1 /\ end_json_pos # -1
                             /\ end_json_pos > start_json_pos)
        THEN [status |-> "no_markers", json_str |-> << >>]
        ELSE IF json_str = << >>
        THEN [status |-> "empty", json_str |-> << >>]
        ELSE [status |-> "found", json_str |-> json_str]

\* units.lstrip()
RECURSIVE LStripUnits(_)
LStripUnits(units) ==
    IF units = << >> THEN << >>
    ELSE IF IsSpaceUnit(Head(units)) THEN LStripUnits(Tail(units)) ELSE units

NoParse == [ok |-> FALSE, el |-> JOther("null"), items |-> << >>, rest |-> << >>]

\* json.loads, one JSON value at the head of the units: the element it
\* denotes (for a list, with its items), and the units after it.  An object
\* is "{" and "}" around its members or around whitespace; a list is "["
\* and "]" around values separated by commas.
RECURSIVE ParseValue(_)
RECURSIVE ParseItems(_, _)
ParseValue(units) ==
    LET u == LStripUnits(units)
    IN  IF u = << >> THEN NoParse
        ELSE IF Head(u).tok = "scalar"
        THEN [ok |-> TRUE, el |-> Head(u).el, items |-> << >>, rest |-> Tail(u)]
        ELSE IF Head(u).tok = "{"
        THEN IF Len(u) >= 3 /\ u[2].tok = "members" /\ u[3].tok = "}"
             THEN [ok |-> TRUE, el |-> u[2].el, items |-> << >>,
                   rest |-> SubSeq(u, 4, Len(u))]
             ELSE LET inner == LStripUnits(Tail(u))
                  IN  IF inner # << >> /\ Head(inner).tok = "}"
                      THEN [ok |-> TRUE,
                            el |-> JObject({}, JNull, JNull, JNull, ""),
                            items |-> << >>, rest |-> Tail(inner)]
                      ELSE NoParse
        ELSE IF Head(u).tok = "["
        THEN LET inner == LStripUnits(Tail(u))
             IN  IF inner # << >> /\ Head(inner).tok = "]"
                 THEN [ok |-> TRUE, el |-> JOther("list"), items |-> << >>,
                       rest |-> Tail(inner)]
                 ELSE ParseItems(inner, << >>)
        ELSE NoParse

\* The items of a list after its "[" or after a comma, up to its "]".
ParseItems(units, items) ==
    LET v == ParseValue(units)
        after == LStripUnits(v.rest)
    IN  IF ~v.ok \/ after = << >> THEN NoParse
        ELSE IF Head(after).tok = ","
        THEN ParseItems(Tail(after), Append(items, v.el))
        ELSE IF Head(after).tok = "]"
        THEN [ok |-> TRUE, el |-> JOther("list"), items |-> Append(items, v.el),
              rest |-> Tail(after)]
        ELSE NoParse

\* json.loads(json_str), line 220: valid = FALSE when it raises
\* JSONDecodeError; is_list tells a list from any other value.
JsonLoads(json_str) ==
    LET v == ParseValue(json_str)
    IN  IF v.ok /\ LStripUnits(v.rest) = << >>
        THEN [valid |-> TRUE, is_list |-> v.el.shape = "list", el |-> v.el,
              items |-> v.items]
        ELSE [valid |-> FALSE, is_list |-> FALSE, el |-> JOther("null"),
              items |-> << >>]

Digits == <<"0", "1", "2", "3", "4", "5", "6", "7", "8", "9">>

IsDigit(c) == \E d \in 1..10 : Digits[d] = c

\* The number a sequence of digits denotes.
RECURSIVE DecimalValue(_)
DecimalValue(digits) ==
    IF digits = << >> THEN 0
    ELSE 10 * DecimalValue(SubSeq(digits, 1, Len(digits) - 1))
            + (CHOOSE d \in 1..10 : Digits[d] = digits[Len(digits)]) - 1

\* int(v), lines 229-230, for a JSON value: the integer, or the exception.
\* A number with a fraction is truncated, null raises TypeError, a string is
\* parsed or raises ValueError: whitespace around it is dropped, a sign may
\* come first, and the digits may be grouped by single underscores between
\* two digits (int('1_0') is 10; '_1', '1_' and '1__0' raise).
IntOf(v) ==
    LET Grouped(digits) ==
            /\ digits # << >>
            /\ IsDigit(digits[1])
            /\ IsDigit(digits[Len(digits)])
            /\ \A d \in 1..Len(digits) :
                    IsDigit(digits[d]) \/ (digits[d] = "_" /\ IsDigit(digits[d - 1]))
        Parsed(negative, digits) ==
            IF Grouped(digits)
            THEN [error |-> "",
                  n |-> IF negative THEN 0 - DecimalValue(SelectSeq(digits, IsDigit))
                        ELSE DecimalValue(SelectSeq(digits, IsDigit))]
            ELSE [error |-> "ValueError", n |-> 0]
        Signed(t) ==
            IF t # << >> /\ t[1] \in {"+", "-"} THEN Parsed(t[1] = "-", Tail(t))
            ELSE Parsed(FALSE, t)
    IN  IF v.k \in {"int", "float"} THEN [error |-> "", n |-> v.n]
        ELSE IF v.k = "null" THEN [error |-> "TypeError", n |-> 0]
        ELSE Signed(Strip(v.s))

\* Lines 225-277 for one item of the parsed list: the item is kept as a
\* finding with the reconciled offsets, or skipped (continue), or an
\* exception other than the ValueError of line 232 leaves the loop (abort).
\*   - an item that is a number or null: the test of line 225 raises
\*     TypeError; a string or a list holds none of the keys and is skipped;
\*   - an object without a required key is skipped (lines 225-227);
\*   - int() of an offset: ValueError skips the item (lines 232-234),
\*     TypeError leaves the loop; the start is converted before the end;
\*   - a snippet that is not a string: the comparison of line 242 is false
\*     and len() at line 252 raises TypeError.
ProcessElement(chunk_text_content, finding) ==
    LET llm_start_offset == IntOf(finding.start)
        llm_end_offset == IntOf(finding.end)
        r == ReconcileOffsets(chunk_text_content, llm_start_offset.n,
                              llm_end_offset.n, finding.snippet.s)
        abort == [does |-> "abort", kept |-> << >>]
        skip == [does |-> "skip", kept |-> << >>]
        Keep(located) ==
            IF ~located.located THEN skip
            ELSE [does |-> "keep",
                  kept |-> <<[original_snippet_text |-> finding.snippet.s,
                              suggestion |-> finding.suggestion,
                              type |-> "spelling",
                              start_offset_in_chunk |-> located.start,
                              end_offset_in_chunk |-> located.end,
                              explanation |-> "why"]>>]
    IN  IF finding.shape \in {"number", "null"} THEN abort
        ELSE IF finding.shape \in {"string", "list"} THEN skip
        ELSE IF ~(RequiredKeys \subseteq finding.has) THEN skip
        ELSE IF llm_start_offset.error = "ValueError" THEN skip
        ELSE IF llm_start_offset.error = "TypeError" THEN abort
        ELSE IF llm_end_offset.error = "ValueError" THEN skip
        ELSE IF llm_end_offset.error = "TypeError" THEN abort
        ELSE IF finding.snippet.k # "str" THEN abort
        ELSE Keep(r)

\* Lines 223-277 on the items of the parsed list: the findings collected,
\* or aborted = TRUE when an exception leaves the loop (it is caught at
\* line 282 and the call returns []).
RECURSIVE ProcessElements(_, _)
ProcessElements(chunk_text_content, items) ==
    IF items = << >> THEN [aborted |-> FALSE, findings |-> << >>]
    ELSE LET Collect(head, rest) ==
                IF head.does = "abort" \/ rest.aborted
                THEN [aborted |-> TRUE, findings |-> << >>]
                ELSE [aborted |-> FALSE, findings |-> head.kept \o rest.findings]
         IN  Collect(ProcessElement(chunk_text_content, Head(items)),
                     ProcessElements(chunk_text_content, Tail(items)))

-----------------------------------------------------------------------------
(* proposal_analyzer/llm_client.py: query                                  *)

NoResponseError ==
    <<"E", "r", "r", "o", "r", ":", " ", "N", "o", " ", "r", "e", "s", "p",
      "o", "n", "s", "e", " ", "r", "e", "c", "e", "i", "v", "e", "d", " ",
      "f", "r", "o", "m", " ", "t", "h", "e", " ", "o", "p", "e", "n", "a",
      "i", " ", "m", "o", "d", "e", "l", ".">>

ApiCallErrorPrefix ==
    <<"E", "r", "r", "o", "r", " ", "d", "u", "r", "i", "n", "g", " ", "o",
      "p", "e", "n", "a", "i", " ", "A", "P", "I", " ", "c", "a", "l", "l",
      ":", " ">>

\* What the call of the provider's chat completion API can come to: a
\* completion whose first choice has the message content `content` (text,
\* or None for a completion without text content), a completion without
\* choices, an exception raised by the API call, or a configuration that
\* query rejects before the call (an unsupported provider, no API key).
ContentOutcome(content) == [kind |-> "content", content |-> content]

NoChoicesOutcome == [kind |-> "no_choices", content |-> NoneValue]

ExceptionOutcome == [kind |-> "exception", content |-> NoneValue]

ConfigErrorOutcome == [kind |-> "config_error", content |-> NoneValue]

\* query(messages, model, client, provider), lines 32-82: the value it
\* returns, or raised = TRUE when it raises ValueError (lines 35-42).
\* The provider is 'openai', the name the messages of lines 79 and 82 carry.
Query(outcome) ==
    LET
        TimeoutMessage ==
            <<"R", "e", "q", "u", "e", "s", "t", " ", "t", "i", "m", "e", "d", " ",
              "o", "u", "t", ".">>
    IN
    IF outcome.kind = "config_error"
    THEN [raised |-> TRUE, value |-> NoneValue]
    ELSE IF outcome.kind = "content"
    THEN [raised |-> FALSE, value |-> outcome.content]
    ELSE IF outcome.kind = "no_choices"
    THEN [raised |-> FALSE, value |-> Some(NoResponseError)]
    ELSE [raised |-> FALSE, value |-> Some(ApiCallErrorPrefix \o TimeoutMessage)]

-----------------------------------------------------------------------------
(* SpellCheckingService._call_llm_for_correction: the whole call           *)

\* The lexical units of a text given by its characters.
Lex(text) ==
    [p \in 1..Len(text) |->
        IF text[p] \in {"[", "]", "{", "}", ",", " ", "\n"}
        THEN Unit(text[p]) ELSE Unit("text")]

\* A call that takes a response without a list of findings for an exception.
CallLLMForCorrectionRawStrict(chunk_text_content, outcome) ==
    LET asked == Query(outcome)
        extracted == ExtractJson(asked.value.text)
        findings == JsonLoads(extracted.json_str)
        processed == ProcessElements(chunk_text_content, findings.items)
    IN  IF asked.raised \/ asked.value.is_none \/ outcome.kind # "content"
           \/ extracted.status # "found" \/ ~findings.valid
           \/ processed.aborted
        THEN [raised |-> TRUE, called |-> TRUE, how |-> "raised",
              findings |-> << >>]
        ELSE [raised |-> FALSE, called |-> TRUE, how |-> "processed",
              findings |-> processed.findings]

\* _call_llm_for_correction(chunk_text_content, chunk_index) when the call
\* of the gateway comes to `outcome` (the content of a completion being
\* given by its lexical units): the list returned, or raised = TRUE for an
\* exception that leaves the call.  "how" names the path taken, "called"
\* tells whether query was called.
\*   - line 143: a blank chunk returns [] without a call;
\*   - line 175: query is called outside the try block, what it raises
\*     leaves the call;
\*   - line 183: a response that is None makes re.search raise TypeError,
\*     which line 282 catches;
\*   - lines 204-212: no span, or an empty one, returns [];
\*   - line 220: JSONDecodeError is caught at line 279;
\*   - line 224: a value that is not a list is iterated as Python allows
\*     (the keys of an object, the characters of a string: all skipped) or
\*     raises TypeError (a number, null): [] in every case.
CallLLMForCorrectionRaw(chunk_text_content, outcome) ==
    LET asked == Query(outcome)
        raw_response == IF outcome.kind = "content" THEN asked.value.text
                        ELSE Lex(asked.value.text)
        extracted == ExtractJson(raw_response)
        findings == JsonLoads(extracted.json_str)
        processed == ProcessElements(chunk_text_content, findings.items)
        returns(how, list) == [raised |-> FALSE, called |-> how # "blank",
                               how |-> how, findings |-> list]
    IN  IF Strip(chunk_text_content) = << >> THEN returns("blank", << >>)
        ELSE IF asked.raised
        THEN [raised |-> TRUE, called |-> TRUE, how |-> "raised",
              findings |-> << >>]
        ELSE IF asked.value.is_none THEN returns("none_content", << >>)
        ELSE IF extracted.status # "found" THEN returns(extracted.status, << >>)
        ELSE IF ~findings.valid THEN returns("invalid_json", << >>)
        ELSE IF ~findings.is_list THEN returns("not_a_list", << >>)
        ELSE IF processed.aborted THEN returns("aborted", << >>)
        ELSE returns("processed", processed.findings)

-----------------------------------------------------------------------------
(* proposal_analyzer/rules_engine.py: evaluate                             *)

LowerCase ==
    <<"a", "b", "c", "d", "e", "f", "g", "h", "i", "j", "k", "l", "m",
      "n", "o", "p", "q", "r", "s", "t", "u", "v", "w", "x", "y", "z">>

UpperCase ==
    <<"A", "B", "C", "D", "E", "F", "G", "H", "I", "J", "K", "L", "M",
      "N", "O", "P", "Q", "R", "S", "T", "U", "V", "W", "X", "Y", "Z">>

\* c.upper() for one character.
UpperChar(c) ==
    IF \E i \in 1..26 : LowerCase[i] = c
    THEN UpperCase[CHOOSE i \in 1..26 : LowerCase[i] = c]
    ELSE c

\* s.upper()
Upper(s) == [i \in 1..Len(s) |-> UpperChar(s[i])]

\* s.startswith(prefix)
StartsWith(s, prefix) ==
    Len(s) >= Len(prefix) /\ SubSeq(s, 1, Len(prefix)) = prefix

YesPrefix == <<"Y", "E", "S", ":">>

NoPrefix == <<"N", "O", ":">>

UnsurePrefix == <<"U", "N", "S", "U", "R", "E", ":">>

UnexpectedFormat ==
    <<"U", "n", "e", "x", "p", "e", "c", "t", "e", "d", " ", "r", "e", "s",
      "p", "o", "n", "s", "e", " ", "f", "o", "r", "m", "a", "t", ":", " ">>

\* A parse that compares the prefix as written, without upper-casing.
ParseResponseCaseSensitive(raw_response) ==
    LET response_strip == Strip(raw_response)
    IN  IF StartsWith(response_strip, YesPrefix)
        THEN [answer |-> "True",
              reasoning |-> Strip(Slice(response_strip, 4, Len(response_strip)))]
        ELSE IF StartsWith(response_strip, NoPrefix)
        THEN [answer |-> "False",
              reasoning |-> Strip(Slice(response_strip, 3, Len(response_strip)))]
        ELSE IF StartsWith(response_strip, UnsurePrefix)
        THEN [answer |-> "None",
              reasoning |-> Strip(Slice(response_strip, 7, Len(response_strip)))]
        ELSE [answer |-> "None", reasoning |-> UnexpectedFormat \o response_strip]

\* A parse whose fallback reports a NO instead of an unknown answer.
ParseResponseFallbackNo(raw_response) ==
    LET response_strip == Strip(raw_response)
        response_upper == Upper(response_strip)
    IN  IF StartsWith(response_upper, YesPrefix)
        THEN [answer |-> "True",
              reasoning |-> Strip(Slice(response_strip, 4, Len(response_strip)))]
        ELSE IF StartsWith(response_upper, NoPrefix)
        THEN [answer |-> "False",
              reasoning |-> Strip(Slice(response_strip, 3, Len(response_strip)))]
        ELSE IF StartsWith(response_upper, UnsurePrefix)
        THEN [answer |-> "None",
              reasoning |-> Strip(Slice(response_strip, 7, Len(response_strip)))]
        ELSE [answer |-> "False", reasoning |-> response_strip]

\* Lines 72-90: the answer ("True", "False", "None" for Python's True, False,
\* None) and the reasoning parsed from the text of the response.
ParseResponse(raw_response) ==
    LET response_strip == Strip(raw_response)
        response_upper == Upper(response_strip)
    IN  IF StartsWith(response_upper, YesPrefix)
        THEN [answer |-> "True",
              reasoning |-> Strip(Slice(response_strip, 4, Len(response_strip)))]
        ELSE IF StartsWith(response_upper, NoPrefix)
        THEN [answer |-> "False",
              reasoning |-> Strip(Slice(response_strip, 3, Len(response_strip)))]
        ELSE IF StartsWith(response_upper, UnsurePrefix)
        THEN [answer |-> "None",
              reasoning |-> Strip(Slice(response_strip, 7, Len(response_strip)))]
        ELSE [answer |-> "None", reasoning |-> UnexpectedFormat \o response_strip]

\* A result record keeping the trimmed response as raw_response.
EvaluationResultTrimmed(question, raw_response) ==
    [question |-> question,
     answer |-> ParseResponse(raw_response).answer,
     reasoning |-> ParseResponse(raw_response).reasoning,
     raw_response |-> Strip(raw_response)]

\* Lines 92-97: the record evaluate returns.
EvaluationResult(question, raw_response) ==
    [question |-> question,
     answer |-> ParseResponse(raw_response).answer,
     reasoning |-> ParseResponse(raw_response).reasoning,
     raw_response |-> raw_response]

NoResult == [question |-> << >>, answer |-> "None", reasoning |-> << >>,
             raw_response |-> << >>]

\* evaluate(question, context, ask, instructions) with ask = query, when the
\* provider call comes to `outcome`: the record returned, or the exception
\* that leaves evaluate.  Line 70 lets an exception of ask through; line 75
\* calls raw_response.strip(), which raises AttributeError on None.
Evaluate(question, outcome) ==
    LET asked == Query(outcome)
    IN  IF asked.raised
        THEN [raised |-> TRUE, error |-> "ValueError", result |-> NoResult]
        ELSE IF asked.value.is_none
        THEN [raised |-> TRUE, error |-> "AttributeError", result |-> NoResult]
        ELSE [raised |-> FALSE, error |-> "",
              result |-> EvaluationResult(question, asked.value.text)]

\* Bound of the generated text that follows the head of a response.
MaxBodyLen == 2

MissingCertification ==
    <<"n", "o", ":", " ", "M", "i", "s", "s", "i", "n", "g", " ", "c", "e",
      "r", "t", "i", "f", "i", "c", "a", "t", "i", "o", "n", ".">>

LooksFine ==
    <<"T", "h", "e", " ", "p", "r", "o", "p", "o", "s", "a", "l", " ", "l",
      "o", "o", "k", "s", " ", "f", "i", "n", "e", ".">>

Questions == {<<"q", "1">>, <<"q", "2">>}

EvaluateInit ==
    LET
        EvaluateOutcomes ==
            LET
                \* The texts the model may answer with: the spec's examples, and a head in
                \* any of the spellings above, followed by a short text, inside whitespace.
                ResponseTexts ==
                    LET
                        ResponseHeads ==
                            {<<"Y", "E", "S", ":">>,
                             <<"y", "e", "s", ":">>,
                             <<"Y", "e", "s", ":">>,
                             <<"y", "E", "s", ":">>,
                             <<"N", "O", ":">>,
                             <<"n", "o", ":">>,
                             <<"n", "O", ":">>,
                             <<"U", "N", "S", "U", "R", "E", ":">>,
                             <<"u", "n", "s", "u", "r", "e", ":">>,
                             <<"U", "n", "s", "u", "r", "e", ":">>,
                             <<"Y", "E", "S">>,
                             <<"N", "O">>,
                             <<"U", "N", "S", "U", "R", "E">>,
                             <<"Y", "E", "S", " ", ":">>,
                             <<"Y", ":">>,
                             <<"N", ":">>,
                             <<"N", "O", "T", ":">>,
                             <<"Y", "E", "S", "N", "O", ":">>,
                             <<"S", "U", "R", "E", ":">>,
                             <<"O", "K">>,
                             <<>>}
                        ResponseLeads == {<< >>, <<" ">>, <<"\n", " ">>}
                        ResponseTrails == {<< >>, <<" ">>, <<"\n">>}
                    IN
                    {MissingCertification, LooksFine}
                        \cup {lead \o head \o body \o trail :
                                lead \in ResponseLeads, head \in ResponseHeads,
                                body \in TextsUpTo({"o", "k", " ", ":"}, MaxBodyLen),
                                trail \in ResponseTrails}
            IN
            {ContentOutcome(Some(t)) : t \in ResponseTexts}
                \cup {ContentOutcome(NoneValue), NoChoicesOutcome, ExceptionOutcome,
                      ConfigErrorOutcome}
    IN
    /\ \E question \in Questions, outcome \in EvaluateOutcomes :
          evaluator = [pc |-> "call", question |-> question, outcome |-> outcome,
                       result |-> NoResult]
    /\ chunker = Idle
    /\ reconciler = Idle
    /\ checker = Idle
    /\ analyzer = Idle
    /\ extractor = Idle

\* evaluate returns its record or raises.
EvaluateCall ==
    /\ evaluator.pc = "call"
    /\ LET e == Evaluate(evaluator.question, evaluator.outcome)
       IN  evaluator' = [evaluator EXCEPT
                            !.pc = IF e.raised THEN "raised" ELSE "returned",
                            !.result = e.result]
    /\ UNCHANGED <<chunker, reconciler, checker, analyzer, extractor>>

SpecEvaluate == EvaluateInit /\ [][EvaluateCall]_vars

-----------------------------------------------------------------------------
(* Properties of evaluate                                                  *)

\* The text of the response evaluate received from the gateway.
ReceivedText == Query(evaluator.outcome).value.text

ReceivedSomeText ==
    /\ evaluator.pc = "returned"
    /\ ~Query(evaluator.outcome).raised
    /\ ~Query(evaluator.outcome).value.is_none

\* The trimmed text starts with the prefix, letter case ignored.
HasPrefix(trimmed, prefix) ==
    /\ Len(trimmed) >= Len(prefix)
    /\ \A i \in 1..Len(prefix) : UpperChar(trimmed[i]) = prefix[i]

\* The text after the first n characters, without surrounding whitespace.
AfterPrefix(trimmed, n) == Strip(SubSeq(trimmed, n + 1, Len(trimmed)))

\* C3: evaluate trims the response and compares its prefix without regard to
\* letter case: YES: gives answer true, NO: gives false, UNSURE: gives null,
\* and in each case the reasoning is the text after the prefix with leading
\* and trailing whitespace removed.
C3_PrefixParsedCaseInsensitively ==
    ReceivedSomeText =>
        LET trimmed == Strip(ReceivedText)
            result == evaluator.result
        IN  /\ HasPrefix(trimmed, YesPrefix) =>
                  /\ result.answer = "True"
                  /\ result.reasoning = AfterPrefix(trimmed, 4)
            /\ HasPrefix(trimmed, NoPrefix) =>
                  /\ result.answer = "False"
                  /\ result.reasoning = AfterPrefix(trimmed, 3)
            /\ HasPrefix(trimmed, UnsurePrefix) =>
                  /\ result.answer = "None"
                  /\ result.reasoning = AfterPrefix(trimmed, 7)

\* The response 'no: Missing certification.' has been evaluated to a NO with
\* the reasoning 'Missing certification.'.
C3_Witness ==
    /\ ReceivedSomeText
    /\ ReceivedText = MissingCertification
    /\ evaluator.result.answer = "False"
    /\ evaluator.result.reasoning = SubSeq(MissingCertification, 5, Len(MissingCertification))

NoPrefixRecognised(trimmed) ==
    /\ ~HasPrefix(trimmed, YesPrefix)
    /\ ~HasPrefix(trimmed, NoPrefix)
    /\ ~HasPrefix(trimmed, UnsurePrefix)

\* C7 as stated: a response with none of the prefixes gives answer null and
\* the reasoning 'Unexpected response format: ' followed by the full response.
C7_UnexpectedFormatFullResponse ==
    (ReceivedSomeText /\ NoPrefixRecognised(Strip(ReceivedText))) =>
        /\ evaluator.result.answer = "None"
        /\ evaluator.result.reasoning = UnexpectedFormat \o ReceivedText

\* C7: a response with none of the prefixes gives answer null and the
\* reasoning 'Unexpected response format: ' followed by the response with its
\* leading and trailing whitespace removed.
C7_UnexpectedFormatTrimmedResponse ==
    (ReceivedSomeText /\ NoPrefixRecognised(Strip(ReceivedText))) =>
        /\ evaluator.result.answer = "None"
        /\ evaluator.result.reasoning = UnexpectedFormat \o Strip(ReceivedText)

\* A response without a prefix and with surrounding whitespace has been
\* evaluated: the reasoning carries the trimmed text, not the response.
C7_Witness ==
    /\ ReceivedSomeText
    /\ NoPrefixRecognised(Strip(ReceivedText))
    /\ Strip(ReceivedText) # ReceivedText
    /\ Strip(ReceivedText) # << >>
    /\ evaluator.result.reasoning = UnexpectedFormat \o Strip(ReceivedText)

\* C8: the raw_response of the result is the response the LLM call returned,
\* unmodified, whether or not a prefix was recognised.
C8_RawResponseVerbatim ==
    ReceivedSomeText => evaluator.result.raw_response = ReceivedText

\* A response with a recognised prefix inside whitespace has been evaluated
\* and is kept as it came, which is neither its trimmed text nor its reasoning.
C8_Witness ==
    /\ ReceivedSomeText
    /\ HasPrefix(Strip(ReceivedText), YesPrefix)
    /\ Strip(ReceivedText) # ReceivedText
    /\ Upper(ReceivedText) # ReceivedText
    /\ evaluator.result.raw_response = ReceivedText
    /\ evaluator.result.raw_response # evaluator.result.reasoning

\* C9: for every value the gateway returns as the response, evaluate returns
\* a record with an answer of true, false or null; it does not raise.
C9_EvaluateNeverRaisesOnOutput ==
    (evaluator.pc # "call" /\ ~Query(evaluator.outcome).raised) =>
        /\ evaluator.pc = "returned"
        /\ evaluator.result.answer \in {"True", "False", "None"}

-----------------------------------------------------------------------------
(* proposal_analyzer/rules_engine.py: evaluate, its prompt and its calls   *)

\* Lines 3-30: the fixed text of the system message, kept as one unit.
SYSTEM_PROMPT == <<"SYSTEM_PROMPT">>

\* A context string whose headers carry the names as they are written.
RECURSIVE ContextStrAsNamed(_)
ContextStrAsNamed(context) ==
    IF context = << >> THEN << >>
    ELSE <<"-", "-", "-", " ">> \o Head(context).doc_name
            \o <<" ", "-", "-", "-", "\n">> \o Head(context).content
            \o (IF Tail(context) = << >> THEN << >>
                ELSE <<"\n", "\n">> \o ContextStrAsNamed(Tail(context)))

\* Line 53: the documents of the context, a dict given here by its items in
\* order, each under the header of its upper-cased name, joined by "\n\n".
RECURSIVE ContextStr(_)
ContextStr(context) ==
    IF context = << >> THEN << >>
    ELSE <<"-", "-", "-", " ">> \o Upper(Head(context).doc_name)
            \o <<" ", "-", "-", "-", "\n">> \o Head(context).content
            \o (IF Tail(context) = << >> THEN << >>
                ELSE <<"\n", "\n">> \o ContextStr(Tail(context)))

\* Lines 55-63: the content of the user message.  The instructions, None
\* or an empty text, add nothing.
UserPromptContent(question, context, instructions) ==
    LET here_is_the_context ==
            <<"H", "e", "r", "e", " ", "i", "s", " ", "t", "h",
              "e", " ", "c", "o", "n", "t", "e", "x", "t", ":",
              "\n">>
        question_header ==
            <<"\n", "\n", "-", "-", "-", " ", "Q", "U", "E", "S",
              "T", "I", "O", "N", " ", "-", "-", "-", "\n">>
        important ==
            <<"\n", "\n", "I", "M", "P", "O", "R", "T", "A", "N",
              "T", ":", " ", "S", "t", "a", "r", "t", " ", "y",
              "o", "u", "r", " ", "r", "e", "s", "p", "o", "n",
              "s", "e", " ", "w", "i", "t", "h", " ", "e", "x",
              "a", "c", "t", "l", "y", " ", "\"", "Y", "E", "S",
              ":", "\"", ",", " ", "\"", "N", "O", ":", "\"", ",",
              " ", "o", "r", " ", "\"", "U", "N", "S", "U", "R",
              "E", ":", "\"", " ", "-", " ", "n", "o", " ", "o",
              "t", "h", "e", "r", " ", "f", "o", "r", "m", "a",
              "t", " ", "i", "s", " ", "a", "c", "c", "e", "p",
              "t", "a", "b", "l", "e", ".">>
        additional_instructions ==
            <<"\n", "A", "d", "d", "i", "t", "i", "o", "n", "a",
              "l", " ", "i", "n", "s", "t", "r", "u", "c", "t",
              "i", "o", "n", "s", ":", " ">>
    IN  here_is_the_context \o ContextStr(context) \o question_header
            \o question \o important
            \o (IF instructions.is_none \/ instructions.text = << >>
                THEN << >>
                ELSE additional_instructions \o instructions.text \o <<"\n">>)

\* Building the messages and emptying the context dict on the way.
BuildMessagesConsuming(question, context, instructions) ==
    [context |-> << >>,
     messages |-> <<[role |-> "system", content |-> SYSTEM_PROMPT],
                    [role |-> "user",
                     content |-> UserPromptContent(question, context, instructions)]>>]

\* Lines 53-68: the list of messages built for one call, a new list, and
\* the context dict as the lines leave it: they only read it.
BuildMessages(question, context, instructions) ==
    [context |-> context,
     messages |-> <<[role |-> "system", content |-> SYSTEM_PROMPT],
                    [role |-> "user",
                     content |-> UserPromptContent(question, context, instructions)]>>]

\* Two calls of evaluate that run at the same time on one context dict.
Callers == {"a", "b"}

CallsInit ==
    LET
        \* The contexts of the calls: none, one and two documents.
        Contexts ==
            {<< >>,
             <<[doc_name |-> <<"c", "a", "l", "l">>, content |-> <<"c">>]>>,
             <<[doc_name |-> <<"c", "a", "l", "l">>, content |-> <<"c">>],
               [doc_name |-> <<"p", "r", "o", "p", "o", "s", "a", "l">>,
                content |-> <<"p", "\n", "p">>]>>}
        \* The state of a call of evaluate before its first line.
        EvaluateEnter(question, instructions, outcome) ==
            [pc |-> "build", question |-> question, instructions |-> instructions,
             outcome |-> outcome, messages |-> << >>, asked |-> << >>,
             raw_response |-> NoneValue, result |-> NoResult]
    IN
    /\ \E context \in Contexts,
          questions \in [Callers -> Questions],
          instructions \in [Callers -> {NoneValue, Some(<< >>), Some(<<"i">>)}],
          outcomes \in [Callers -> {ContentOutcome(Some(MissingCertification)),
                                    ContentOutcome(Some(LooksFine)),
                                    ContentOutcome(NoneValue),
                                    ConfigErrorOutcome}] :
            evaluator = [pc |-> "calls",
                         context |-> context,
                         calls |-> [c \in Callers |->
                                      EvaluateEnter(questions[c], instructions[c],
                                                    outcomes[c])]]
    /\ chunker = Idle
    /\ reconciler = Idle
    /\ checker = Idle
    /\ analyzer = Idle
    /\ extractor = Idle

\* Lines 53-68 of call c.
CallBuild(c) ==
    /\ evaluator.pc = "calls"
    /\ evaluator.calls[c].pc = "build"
    /\ LET call == evaluator.calls[c]
           built == BuildMessages(call.question, evaluator.context, call.instructions)
       IN  evaluator' = [evaluator EXCEPT
                            !.context = built.context,
                            !.calls[c].pc = "ask",
                            !.calls[c].messages = built.messages]
    /\ UNCHANGED <<chunker, reconciler, checker, analyzer, extractor>>

\* Line 70 of call c: ask(messages=messages), with ask = query.
CallAsk(c) ==
    /\ evaluator.pc = "calls"
    /\ evaluator.calls[c].pc = "ask"
    /\ LET call == evaluator.calls[c]
           asked == Query(call.outcome)
       IN  evaluator' = [evaluator EXCEPT
                            !.calls[c].pc = IF asked.raised THEN "raised" ELSE "parse",
                            !.calls[c].asked = Append(call.asked, call.messages),
                            !.calls[c].raw_response = asked.value]
    /\ UNCHANGED <<chunker, reconciler, checker, analyzer, extractor>>

\* Lines 72-97 of call c; line 75 raises AttributeError on None.
CallReturn(c) ==
    /\ evaluator.pc = "calls"
    /\ evaluator.calls[c].pc = "parse"
    /\ LET call == evaluator.calls[c]
       IN  evaluator' = [evaluator EXCEPT
                            !.calls[c].pc = IF call.raw_response.is_none
                                            THEN "raised" ELSE "returned",
                            !.calls[c].result =
                                IF call.raw_response.is_none THEN NoResult
                                ELSE EvaluationResult(call.question,
                                                      call.raw_response.text)]
    /\ UNCHANGED <<chunker, reconciler, checker, analyzer, extractor>>

CallsNext == \E c \in Callers : CallBuild(c) \/ CallAsk(c) \/ CallReturn(c)

SpecCalls == CallsInit /\ [][CallsNext]_vars

\* C21: evaluate calls the LLM exactly once, with two messages: a system
\* message whose content is SYSTEM_PROMPT, then a user message in which
\* stand, one after the other, for each document of the context in order
\* the header of its upper-cased name, a newline and its text, then the
\* header of the question, a newline and the question, then the text of
\* the instructions when instructions are given; when none are given, no
\* word of instructions follows the question.
C21_OneCallWithSystemAndUserPrompt ==
    evaluator.pc = "calls" =>
        \A c \in Callers :
            LET call == evaluator.calls[c]
                dashes == <<"-", "-", "-">>
                DocBlock(doc) ==
                    dashes \o <<" ">> \o Upper(doc.doc_name) \o <<" ">> \o dashes
                        \o <<"\n">> \o doc.content
                question_block ==
                    dashes \o <<" ", "Q", "U", "E", "S", "T", "I", "O", "N", " ">>
                        \o dashes \o <<"\n">> \o call.question
                blocks == [i \in 1..Len(evaluator.context) |->
                              DocBlock(evaluator.context[i])]
                            \o <<question_block>>
                            \o (IF call.instructions.is_none THEN << >>
                                ELSE <<call.instructions.text>>)
                RECURSIVE EndOfBlocks(_, _, _)
                EndOfBlocks(content, rest, from) ==
                    IF rest = << >> THEN from
                    ELSE IF from = -1 \/ Find(content, Head(rest), from, Len(content)) = -1
                    THEN -1
                    ELSE EndOfBlocks(content, Tail(rest),
                                     Find(content, Head(rest), from, Len(content))
                                        + Len(Head(rest)))
            IN  /\ Len(call.asked) <= 1
                /\ call.pc \in {"parse", "returned", "raised"} =>
                      /\ Len(call.asked) = 1
                      /\ Len(call.asked[1]) = 2
                      /\ call.asked[1][1] = [role |-> "system", content |-> SYSTEM_PROMPT]
                      /\ call.asked[1][2].role = "user"
                      /\ EndOfBlocks(call.asked[1][2].content, blocks, 0) # -1
                      /\ call.instructions.is_none =>
                            Find(call.asked[1][2].content,
                                 <<"i", "n", "s", "t", "r", "u", "c", "t", "i", "o", "n", "s">>,
                                 EndOfBlocks(call.asked[1][2].content, blocks, 0),
                                 Len(call.asked[1][2].content)) = -1

\* C21 witness: a call has returned after asking once with a context of two
\* documents and with instructions, and the other call was made without
\* instructions.
C21_Witness ==
    /\ evaluator.pc = "calls"
    /\ Len(evaluator.context) = 2
    /\ evaluator.calls["a"].pc = "returned"
    /\ evaluator.calls["a"].instructions = Some(<<"i">>)
    /\ Len(evaluator.calls["a"].asked) = 1
    /\ evaluator.calls["b"].pc = "returned"
    /\ evaluator.calls["b"].instructions = NoneValue

\* C26: evaluate keeps no state between calls and leaves its arguments as
\* they are: no step of a call changes the context, or the question or the
\* instructions of any call, and in every interleaving of two calls each
\* call asks with the messages built from its own arguments and ends as it
\* does alone: it returns the record made of its own question and of the
\* response given for it, or raises when alone it raises.
C26_CallsIndependent ==
    /\ [][evaluator.pc = "calls" =>
            /\ evaluator'.context = evaluator.context
            /\ \A c \in Callers :
                  /\ evaluator'.calls[c].question = evaluator.calls[c].question
                  /\ evaluator'.calls[c].instructions
                        = evaluator.calls[c].instructions]_vars
    /\ [](evaluator.pc = "calls" =>
            \A c \in Callers :
                LET call == evaluator.calls[c]
                    alone == Evaluate(call.question, call.outcome)
                IN  /\ call.pc \in {"parse", "returned", "raised"} =>
                          call.asked
                            = <<BuildMessages(call.question, evaluator.context,
                                              call.instructions).messages>>
                    /\ call.pc = "raised" => alone.raised
                    /\ call.pc = "returned" =>
                          /\ ~alone.raised
                          /\ call.result = alone.result
                          /\ call.result.question = call.question
                          /\ call.result.raw_response = call.outcome.content.text)

\* C26 witness: call a has returned the record of its question while call
\* b, made for the other question and given another response, has asked
\* and not returned yet.
C26_Witness ==
    /\ evaluator.pc = "calls"
    /\ evaluator.context # << >>
    /\ evaluator.calls["a"].pc = "returned"
    /\ evaluator.calls["b"].pc = "parse"
    /\ evaluator.calls["a"].question # evaluator.calls["b"].question
    /\ evaluator.calls["a"].result.answer = "False"
    /\ evaluator.calls["b"].raw_response = Some(LooksFine)

-----------------------------------------------------------------------------
(* proposal_analyzer/loaders.py: load_txt; proposal_analyzer/analyzer.py   *)

\* load_txt(path), lines 47-49, on a file with the given lines: each line
\* stripped, the lines that are blank after stripping left out.
RECURSIVE LoadTxt(_)
LoadTxt(lines) ==
    IF lines = << >> THEN << >>
    ELSE IF Strip(Head(lines)) # << >>
         THEN <<Strip(Head(lines))>> \o LoadTxt(Tail(lines))
         ELSE LoadTxt(Tail(lines))

\* Bound of the number of lines of the questions file.
MaxLines == 3

AnalyzeOutcomes ==
    LET
        YesOk == <<"Y", "E", "S", ":", " ", "o", "k", ".">>
        NoFails ==
            <<"N", "O", ":", " ", "f", "a", "i", "l", "s", " ", "r", "e", "q", "u", "i", "r", "e", "m", "e", "n", "t">>
                \o <<" ", "X", ".">>
    IN
    {ContentOutcome(Some(YesOk)), ContentOutcome(Some(NoFails)),
     ContentOutcome(Some(<<" ", "u", "n", "s", "u", "r", "e", ":", "x">>)),
     ContentOutcome(Some(<<"o", "k", " ">>)),
     ContentOutcome(NoneValue), ExceptionOutcome, ConfigErrorOutcome}

AnalyzeInit ==
    LET
        QuestionFiles ==
            LET
                QuestionLines == {<<"q", "1">>, <<" ", "q", "2", " ">>, << >>, <<" ">>}
            IN
            UNION {[1..n -> QuestionLines] : n \in 0..MaxLines}
    IN
    /\ \E file_lines \in QuestionFiles :
          analyzer = [pc |-> "load", file_lines |-> file_lines,
                      questions |-> << >>, next |-> 1, asked |-> << >>,
                      outcomes |-> << >>, results |-> << >>]
    /\ chunker = Idle
    /\ reconciler = Idle
    /\ checker = Idle
    /\ evaluator = Idle
    /\ extractor = Idle

\* analyze, lines 34-46: the documents and the questions are loaded, the
\* result list is created.
AnalyzeLoad ==
    /\ analyzer.pc = "load"
    /\ analyzer' = [analyzer EXCEPT !.pc = "loop",
                                    !.questions = LoadTxt(analyzer.file_lines),
                                    !.results = << >>]
    /\ UNCHANGED <<chunker, reconciler, checker, evaluator, extractor>>

\* Lines 48-49, one iteration of the loop: evaluate is called for the next
\* question and makes its call of the gateway; its record is appended, and an
\* exception it raises leaves analyze, which has no handler.
AnalyzeQuestion ==
    /\ analyzer.pc = "loop"
    /\ analyzer.next <= Len(analyzer.questions)
    /\ \E outcome \in AnalyzeOutcomes :
          LET q_text == analyzer.questions[analyzer.next]
              e == Evaluate(q_text, outcome)
          IN  analyzer' = [analyzer EXCEPT
                  !.pc = IF e.raised THEN "raised" ELSE "loop",
                  !.next = IF e.raised THEN @ ELSE @ + 1,
                  !.asked = Append(@, q_text),
                  !.outcomes = Append(@, outcome),
                  !.results = IF e.raised THEN @ ELSE Append(@, e.result)]
    /\ UNCHANGED <<chunker, reconciler, checker, evaluator, extractor>>

\* Line 51: the loop is over, the list is returned.
AnalyzeReturn ==
    /\ analyzer.pc = "loop"
    /\ analyzer.next > Len(analyzer.questions)
    /\ analyzer' = [analyzer EXCEPT !.pc = "returned"]
    /\ UNCHANGED <<chunker, reconciler, checker, evaluator, extractor>>

AnalyzeNext == AnalyzeLoad \/ AnalyzeQuestion \/ AnalyzeReturn

SpecAnalyze == AnalyzeInit /\ [][AnalyzeNext]_vars

\* The questions of the file in file order: its lines that are not blank,
\* each without its surrounding whitespace.
QuestionsOfFile == LoadTxt(analyzer.file_lines)

\* C10: analyze evaluates the questions of the file one at a time in file
\* order with exactly one LLM call per question, and returns a list with one
\* result per question, the i-th being the result of the i-th question with
\* the raw_response of the i-th call.
C10_OneResultPerQuestionInOrder ==
    /\ analyzer.pc # "raised"
    /\ analyzer.pc # "load" =>
          /\ Len(analyzer.asked) <= Len(QuestionsOfFile)
          /\ analyzer.asked = SubSeq(QuestionsOfFile, 1, Len(analyzer.asked))
    /\ analyzer.pc = "returned" =>
          /\ analyzer.asked = QuestionsOfFile
          /\ Len(analyzer.results) = Len(QuestionsOfFile)
          /\ \A i \in 1..Len(QuestionsOfFile) :
                /\ analyzer.results[i].question = QuestionsOfFile[i]
                /\ analyzer.results[i].raw_response
                      = Query(analyzer.outcomes[i]).value.text
                /\ analyzer.results[i]
                      = Evaluate(QuestionsOfFile[i], analyzer.outcomes[i]).result

-----------------------------------------------------------------------------
(* utils/text_extraction.py                                                *)

\* \w of the regular expressions: a letter, a digit or the underscore.
IsWord(c) ==
    \/ c = "_"
    \/ IsDigit(c)
    \/ \E i \in 1..26 : LowerCase[i] = c \/ UpperCase[i] = c

\* The length of the line break (\r\n, \r or \n) at the head of s, or 0.
BreakLen(s) ==
    IF Len(s) >= 2 /\ s[1] = "\r" /\ s[2] = "\n" THEN 2
    ELSE IF Len(s) >= 1 /\ s[1] \in {"\r", "\n"} THEN 1
    ELSE 0

\* re.sub(r'(\w)-(\r\n|\r|\n)(\w)', r'\1\3', s), line 63: the matches are
\* taken from left to right and do not overlap.
RECURSIVE RejoinHyphenated(_)
RejoinHyphenated(s) ==
    IF s = << >> THEN << >>
    ELSE LET after_hyphen == SubSeq(s, 3, Len(s))
             break == BreakLen(after_hyphen)
             matches == /\ Len(s) >= 4
                        /\ IsWord(s[1])
                        /\ s[2] = "-"
                        /\ break > 0
                        /\ Len(after_hyphen) > break
                        /\ IsWord(after_hyphen[break + 1])
         IN  IF matches
             THEN <<s[1], after_hyphen[break + 1]>>
                    \o RejoinHyphenated(SubSeq(after_hyphen, break + 2,
                                               Len(after_hyphen)))
             ELSE <<s[1]>> \o RejoinHyphenated(Tail(s))

\* re.sub(r'(\r\n|\r|\n)+', '\n', s), lines 66, 125, 168.
RECURSIVE CollapseLineBreaks(_)
CollapseLineBreaks(s) ==
    IF s = << >> THEN << >>
    ELSE IF s[1] \in {"\r", "\n"}
    THEN IF Len(s) >= 2 /\ s[2] \in {"\r", "\n"}
         THEN CollapseLineBreaks(Tail(s))
         ELSE <<"\n">> \o CollapseLineBreaks(Tail(s))
    ELSE <<s[1]>> \o CollapseLineBreaks(Tail(s))

\* s.split('\n')
RECURSIVE SplitLines(_)
SplitLines(s) ==
    LET at == Find(s, <<"\n">>, 0, Len(s))
    IN  IF at = -1 THEN <<s>>
        ELSE <<SubSeq(s, 1, at)>> \o SplitLines(SubSeq(s, at + 2, Len(s)))

\* "\n".join(lines)
RECURSIVE JoinLines(_)
JoinLines(lines) ==
    IF lines = << >> THEN << >>
    ELSE IF Len(lines) = 1 THEN lines[1]
    ELSE lines[1] \o <<"\n">> \o JoinLines(Tail(lines))

\* re.sub(r'[ \t\xA0]+', ' ', line), lines 71, 129, 172: a run of spaces,
\* tabs and no-break spaces (U+00A0, the third character of the sets
\* below) becomes one space.
RECURSIVE CollapseBlanks(_)
CollapseBlanks(line) ==
    IF line = << >> THEN << >>
    ELSE IF line[1] \in {" ", "\t", " "}
    THEN IF Len(line) >= 2 /\ line[2] \in {" ", "\t", " "}
         THEN CollapseBlanks(Tail(line))
         ELSE <<" ">> \o CollapseBlanks(Tail(line))
    ELSE <<line[1]>> \o CollapseBlanks(Tail(line))

\* re.sub(r'\n{3,}', '\n\n', s), lines 76, 133, 176.
RECURSIVE LimitBlankLines(_)
LimitBlankLines(s) ==
    IF s = << >> THEN << >>
    ELSE IF Len(s) >= 3 /\ s[1] = "\n" /\ s[2] = "\n" /\ s[3] = "\n"
    THEN LimitBlankLines(Tail(s))
    ELSE <<s[1]>> \o LimitBlankLines(Tail(s))

\* The cleaning the three extractors share (lines 66-78, 125-135, 168-178):
\* line breaks collapsed, each line with its blanks collapsed and stripped,
\* blank lines limited, the whole stripped.
CleanExtractedText(raw_text) ==
    LET processed_text == CollapseLineBreaks(raw_text)
        lines == SplitLines(processed_text)
        cleaned_lines == [k \in 1..Len(lines) |-> Strip(CollapseBlanks(lines[k]))]
    IN  Strip(LimitBlankLines(JoinLines(cleaned_lines)))

\* A document file is given by what the extractors see of it: its extension
\* in lower case, whether the path is a file, whether the library of its
\* format is installed, whether reading and parsing it succeed, and the
\* texts the library returns for it (the pages of a PDF, the paragraphs and
\* table cells of a DOCX, the one text of a DOC).

\* extract_text_from_pdf, lines 24-83.
ExtractTextFromPdf(file) ==
    LET raw_text_parts == SelectSeq(file.parts, LAMBDA part : part # << >>)
        full_raw_text == JoinLines(raw_text_parts)
    IN  IF ~file.library THEN NoneValue
        ELSE IF ~file.is_file THEN NoneValue
        ELSE IF ~file.readable THEN NoneValue
        ELSE IF raw_text_parts = << >> THEN NoneValue
        ELSE Some(CleanExtractedText(RejoinHyphenated(full_raw_text)))

\* extract_text_from_docx, lines 85-139.
ExtractTextFromDocx(file) ==
    LET full_text == SelectSeq(file.parts, LAMBDA part : Strip(part) # << >>)
        raw_text == JoinLines(full_text)
    IN  IF ~file.library THEN NoneValue
        ELSE IF ~file.is_file THEN NoneValue
        ELSE IF ~file.readable THEN NoneValue
        ELSE IF full_text = << >> THEN NoneValue
        ELSE Some(CleanExtractedText(raw_text))

\* extract_text_from_doc, lines 141-182: docx2txt returns one text.
ExtractTextFromDoc(file) ==
    LET raw_text == IF file.parts = << >> THEN << >> ELSE file.parts[1]
    IN  IF ~file.library THEN NoneValue
        ELSE IF ~file.is_file THEN NoneValue
        ELSE IF ~file.readable THEN NoneValue
        ELSE IF raw_text = << >> \/ Strip(raw_text) = << >> THEN NoneValue
        ELSE Some(CleanExtractedText(raw_text))

\* extract_text_from_document, lines 184-207.
ExtractTextFromDocument(file) ==
    IF ~file.is_file THEN NoneValue
    ELSE IF file.file_extension = ".pdf" THEN ExtractTextFromPdf(file)
    ELSE IF file.file_extension = ".docx" THEN ExtractTextFromDocx(file)
    ELSE IF file.file_extension = ".doc" THEN ExtractTextFromDoc(file)
    ELSE NoneValue

\* Bounds of the texts a library returns for a file.
MaxRawLen == 4
MaxPartLen == 1

ExtractInit ==
    LET
        \* The files: a readable file of each format with any texts (one text of
        \* up to MaxRawLen characters, or two texts of up to MaxPartLen characters,
        \* or none), and for two texts each way of failing (no file, no library, a
        \* read or parse error).
        Files ==
            LET
                RawAlphabet == {"a", "-", "\n", "\r", " ", "\t", " "}
            IN
            {[file_extension |-> ext, is_file |-> TRUE, library |-> TRUE,
              readable |-> TRUE, parts |-> parts] :
                ext \in {".pdf", ".docx", ".doc", ".txt"},
                parts \in {<< >>}
                    \cup {<<t>> : t \in TextsUpTo(RawAlphabet, MaxRawLen)}
                    \cup {<<t, u>> : t \in TextsUpTo(RawAlphabet, MaxPartLen),
                                     u \in TextsUpTo(RawAlphabet, MaxPartLen)}}
            \cup {[file_extension |-> ext, is_file |-> is_file, library |-> library,
                   readable |-> readable, parts |-> parts] :
                    ext \in {".pdf", ".docx", ".doc", ".txt"},
                    is_file \in BOOLEAN, library \in BOOLEAN, readable \in BOOLEAN,
                    parts \in {<<<<"a">>>>, <<<<" ">>>>}}
    IN
    /\ \E function \in {"extract_text_from_document", "extract_text_from_pdf",
                        "extract_text_from_docx", "extract_text_from_doc"},
          file \in Files :
          /\ function = "extract_text_from_doc" => Len(file.parts) <= 1
          /\ (function = "extract_text_from_document"
                /\ file.file_extension = ".doc") => Len(file.parts) <= 1
          /\ extractor = [pc |-> "call", function |-> function, file |-> file,
                          result |-> NoneValue]
    /\ chunker = Idle
    /\ reconciler = Idle
    /\ checker = Idle
    /\ evaluator = Idle
    /\ analyzer = Idle

\* The extractor named by the call returns.
Extract ==
    /\ extractor.pc = "call"
    /\ extractor' = [extractor EXCEPT
                        !.pc = "returned",
                        !.result =
                            IF extractor.function = "extract_text_from_document"
                            THEN ExtractTextFromDocument(extractor.file)
                            ELSE IF extractor.function = "extract_text_from_pdf"
                            THEN ExtractTextFromPdf(extractor.file)
                            ELSE IF extractor.function = "extract_text_from_docx"
                            THEN ExtractTextFromDocx(extractor.file)
                            ELSE ExtractTextFromDoc(extractor.file)]
    /\ UNCHANGED <<chunker, reconciler, checker, evaluator, analyzer>>

SpecExtract == ExtractInit /\ [][Extract]_vars

\* C13: every extractor returns either null or a text that is not empty; a
\* missing file, an unsupported extension, a missing library, a read or
\* parse error, and a source without extractable text (pages of whitespace
\* only included) give null.
C13_NullOrNonEmptyText ==
    extractor.pc = "returned" =>
        LET file == extractor.file
            no_extractable_text ==
                \A k \in 1..Len(file.parts) : Strip(file.parts[k]) = << >>
            unsupported ==
                /\ extractor.function = "extract_text_from_document"
                /\ file.file_extension \notin {".pdf", ".docx", ".doc"}
        IN  /\ extractor.result.is_none \/ extractor.result.text # << >>
            /\ (\/ ~file.is_file
                \/ ~file.library
                \/ ~file.readable
                \/ unsupported
                \/ no_extractable_text) => extractor.result.is_none

\* C14: for the same raw text the PDF, DOCX and DOC extractors return the
\* same normalized text; a word split by a hyphen before a line break is
\* rejoined whatever the format.
C14_SameNormalizationAllFormats ==
    (/\ extractor.pc = "returned"
     /\ extractor.function # "extract_text_from_document"
     /\ extractor.file.is_file
     /\ extractor.file.library
     /\ extractor.file.readable
     /\ Len(extractor.file.parts) = 1)
        => /\ extractor.result = ExtractTextFromPdf(extractor.file)
           /\ extractor.result = ExtractTextFromDocx(extractor.file)
           /\ extractor.result = ExtractTextFromDoc(extractor.file)

-----------------------------------------------------------------------------
(* SpellCheckingService: check_document_text and check_pdf_document, with  *)
(* the gateway and the response text of every chunk                        *)

\* _extract_text_from_pdf of the service, lines 40-94: the same steps as
\* extract_text_from_pdf of utils/text_extraction.py.
ServiceExtractTextFromPdf(file) == ExtractTextFromPdf(file)

\* Lines 339-344: the item check_pdf_document returns when no text was
\* extracted, for the document path d.pdf.
ExtractionErrorItem ==
    [original_snippet |-> <<"d", ".", "p", "d", "f">>,
     suggestion |-> "N/A",
     type |-> "error_extraction",
     line_number |-> -1,
     line_with_error |-> NoneValue,
     char_offset_start_in_doc |-> 0,
     char_offset_end_in_doc |-> 0,
     chunk_index |-> -1,
     explanation |-> "Failed to extract text from PDF or PDF was empty."]

\* The units of one element of a JSON list.
ElementUnits(el) ==
    IF el.shape = "object"
    THEN IF el.has = {} THEN <<Unit("{"), Unit("}")>>
         ELSE <<Unit("{"), MembersUnit(el), Unit("}")>>
    ELSE IF el.shape = "list" THEN <<Unit("["), Unit("]")>>
    ELSE <<ScalarUnit(el.shape)>>

\* The units of the elements, separated by commas.
RECURSIVE JoinElements(_)
JoinElements(elements) ==
    IF elements = << >> THEN << >>
    ELSE IF Len(elements) = 1 THEN ElementUnits(elements[1])
    ELSE ElementUnits(elements[1]) \o <<Unit(","), Unit(" ")>>
            \o JoinElements(Tail(elements))

\* The text of a JSON list of the elements.
ListText(elements) == <<Unit("[")>> \o JoinElements(elements) \o <<Unit("]")>>

\* A well-formed candidate for the snippet "teh" with the claimed start.
TehAt(start, suggestion) ==
    JObject(RequiredKeys, JStr(Teh), JInt(start), JInt(start + 3), suggestion)

\* The elements the model may put in its list in answer to a short document:
\* well-formed candidates (with right and wrong offsets, or for a snippet
\* that is not in the text), and malformed ones; an offset may come as a
\* string, which int() parses ("0_0" is 0) or rejects ("x").
ServiceElements ==
    {TehAt(0, "fix1"),
     TehAt(3, "fix2"),
     JObject(RequiredKeys, JStr(<<"z">>), JInt(0), JInt(1), "fix3"),
     JObject(RequiredKeys \ {"suggestion"}, JStr(Teh), JInt(0), JInt(3), ""),
     JObject(RequiredKeys, JStr(Teh), JNull, JInt(3), "fix4"),
     JObject(RequiredKeys, JStr(Teh), JStr(<<"x">>), JInt(3), "fix5"),
     JObject(RequiredKeys, JStr(Teh), JStr(<<"0", "_", "0">>), JFloat(3, 5), "fix6"),
     JObject(RequiredKeys, JInt(7), JInt(0), JInt(3), "fix7"),
     JOther("number"),
     JOther("string")}

\* Bound of the number of elements of a generated list.
MaxElements == 2

\* Responses without a list of findings: an empty text, prose alone, an
\* empty fence, marks in the wrong order, a list that is not closed, a list
\* with a trailing comma, and an object instead of a list.
Uninterpretable ==
    {<< >>,
     <<Unit("text")>>,
     <<Unit("fence_json"), Unit("\n"), Unit("fence")>>,
     <<Unit("]"), Unit(" "), Unit("[")>>,
     <<Unit("["), Unit("text"), Unit("]")>>,
     <<Unit("["), Unit("{"), MembersUnit(TehAt(0, "fix1")), Unit("}"),
       Unit(","), Unit("]")>>,
     <<Unit("{"), MembersUnit(TehAt(0, "fix1")), Unit("}")>>}

EmptyListOutcome == ContentOutcome(Some(ListText(<< >>)))

\* What the call of the gateway for a chunk comes to.  For a short
\* document: the failures, the responses without a list, every list of up
\* to MaxElements elements, and a list inside prose and inside a markdown
\* fence.  For a long document: the failures, and candidates for "teh" at
\* the places where the long documents hold it.
ChunkOutcomes(document_text) ==
    IF Len(document_text) > DEFAULT_CHUNK_SIZE
    THEN {ConfigErrorOutcome, ExceptionOutcome, ContentOutcome(NoneValue),
          EmptyListOutcome,
          ContentOutcome(Some(<<Unit("text")>>)),
          ContentOutcome(Some(ListText(<<TehAt(0, "fix1")>>))),
          ContentOutcome(Some(ListText(<<TehAt(590, "fix1")>>))),
          ContentOutcome(Some(ListText(<<TehAt(5990, "fix1"), TehAt(0, "fix2")>>))),
          ContentOutcome(Some(ListText(
             <<JObject(RequiredKeys, JStr(Teh), JNull, JInt(3), "fix4"),
               TehAt(0, "fix1")>>)))}
    ELSE {ConfigErrorOutcome, ExceptionOutcome, NoChoicesOutcome,
          ContentOutcome(NoneValue)}
            \cup {ContentOutcome(Some(raw)) : raw \in Uninterpretable}
            \cup {ContentOutcome(Some(ListText(elements))) :
                    elements \in UNION {[1..n -> ServiceElements] :
                                            n \in 0..MaxElements}}
            \cup {ContentOutcome(Some(<<Unit("text"), Unit(" ")>>
                                      \o ListText(<<TehAt(0, "fix1")>>)
                                      \o <<Unit(" "), Unit("text")>>)),
                  ContentOutcome(Some(<<Unit("fence_json"), Unit("\n")>>
                                      \o ListText(<<TehAt(0, "fix1")>>)
                                      \o <<Unit("\n"), Unit("fence")>>))}

\* Lines 307-335 from chunk i on, when the call for chunk k comes to
\* outcomes[k + 1]: the issues collected, or raised = TRUE when a call raises.
RECURSIVE CheckChunksFrom(_, _, _, _, _)
CheckChunksFrom(normalized_full_text, is_pdf_source, chunks_info, i, outcomes) ==
    IF i >= Len(chunks_info) THEN [raised |-> FALSE, value |-> << >>]
    ELSE LET chunk_info == chunks_info[i + 1]
             call == CallLLMForCorrectionRaw(chunk_info.text_content,
                                             outcomes[i + 1])
             rest == CheckChunksFrom(normalized_full_text, is_pdf_source,
                                     chunks_info, i + 1, outcomes)
         IN  IF call.raised \/ rest.raised
             THEN [raised |-> TRUE, value |-> << >>]
             ELSE [raised |-> FALSE,
                   value |-> IssuesWithLocations(normalized_full_text,
                                                 is_pdf_source, chunk_info, i,
                                                 call.findings) \o rest.value]

\* check_document_text(document_text, is_pdf_source), lines 297-335, as a
\* function of the outcomes of the calls of the gateway.
CheckDocumentText(document_text, is_pdf_source, outcomes) ==
    LET normalized_full_text == NormalizeNewlines(document_text)
        chunks_info == ChunkText(normalized_full_text, DEFAULT_CHUNK_SIZE,
                                 DEFAULT_OVERLAP)
    IN  IF document_text = << >> \/ chunks_info = << >>
        THEN [raised |-> FALSE, value |-> << >>]
        ELSE CheckChunksFrom(normalized_full_text, is_pdf_source, chunks_info,
                             0, outcomes)

\* check_pdf_document(document_path), lines 337-346.
CheckPdfDocument(file, outcomes) ==
    LET document_text == ServiceExtractTextFromPdf(file)
    IN  IF document_text.is_none \/ document_text.text = << >>
        THEN [raised |-> FALSE, value |-> <<ExtractionErrorItem>>]
        ELSE CheckDocumentText(document_text.text, TRUE, outcomes)

\* A document of two chunks (chunk_size 6000, overlap 600) with "teh" at
\* 5990, inside the overlap of the two chunks.
OverlapDoc == Repeat("a", 5990) \o Teh \o Repeat("a", 607)

\* A PDF file of check_pdf_document; the runs take one that is not a file,
\* an unreadable one, one without pages, with a page of whitespace, and with
\* pages of text.
PdfFile(is_file, readable, parts) ==
    [file_extension |-> ".pdf", is_file |-> is_file, library |-> TRUE,
     readable |-> readable, parts |-> parts]

\* An accumulation that leaves out an issue reported before for the same
\* place of the document.
AppendIssuesDeduplicated(all_issues_with_locations, issues) ==
    LET Fresh(issue) ==
            \A n \in 1..Len(all_issues_with_locations) :
                \/ all_issues_with_locations[n].char_offset_start_in_doc
                      # issue.char_offset_start_in_doc
                \/ all_issues_with_locations[n].original_snippet
                      # issue.original_snippet
    IN  all_issues_with_locations \o SelectSeq(issues, Fresh)

\* Line 324: every issue of the chunk is appended to the list of the run.
AppendIssues(all_issues_with_locations, issues) ==
    all_issues_with_locations \o issues

ServiceState(entry, file, document_text, is_pdf_source) ==
    [pc |-> IF entry = "check_pdf_document" THEN "extract" ELSE "call",
     entry |-> entry,
     file |-> file,
     document_text |-> document_text,
     is_pdf_source |-> is_pdf_source,
     normalized_full_text |-> << >>,
     chunks_info |-> << >>,
     i |-> 0,
     calls |-> << >>,
     all_issues_with_locations |-> << >>,
     result |-> << >>]

ServiceInit ==
    LET
        \* The documents: of one chunk (two lines with "teh" on the second, one
        \* line), of whitespace only, empty, and of two chunks (OverlapDoc, and one
        \* with "teh" at the start of the first chunk and, on a second line, at the
        \* end of the second chunk).
        ServiceDocuments ==
            {<<"a", "\r", "\n", "t", "e", "h", " ", "t", "e", "h">>,
             Teh,
             <<" ", "\n">>,
             << >>,
             OverlapDoc,
             Teh \o Repeat("a", 6200) \o <<"\n">> \o Teh}
    IN
    /\ \/ \E document_text \in ServiceDocuments, is_pdf_source \in BOOLEAN :
            checker = ServiceState("check_document_text",
                                   PdfFile(FALSE, FALSE, << >>), document_text,
                                   is_pdf_source)
       \/ \E file \in {PdfFile(FALSE, TRUE, <<Teh>>),
                        PdfFile(TRUE, FALSE, <<Teh>>),
                        PdfFile(TRUE, TRUE, << >>),
                        PdfFile(TRUE, TRUE, <<<<" ">>>>),
                        PdfFile(TRUE, TRUE, <<Teh>>),
                        PdfFile(TRUE, TRUE, <<<<"a", "-">>, Teh,
                                              <<"t", "e", "h", " ", " ", "a">>>>)} :
            checker = ServiceState("check_pdf_document", file, << >>, TRUE)
    /\ chunker = Idle
    /\ reconciler = Idle
    /\ evaluator = Idle
    /\ analyzer = Idle
    /\ extractor = Idle

\* check_pdf_document, lines 337-346: the text is extracted; without text
\* the list with the one error item is returned, with text
\* check_document_text is called for a PDF source.
ServicePdfExtract ==
    /\ checker.pc = "extract"
    /\ LET document_text == ServiceExtractTextFromPdf(checker.file)
       IN  checker' =
             IF document_text.is_none \/ document_text.text = << >>
             THEN [checker EXCEPT !.pc = "returned",
                                  !.result = <<ExtractionErrorItem>>]
             ELSE [checker EXCEPT !.pc = "call",
                                  !.document_text = document_text.text]
    /\ UNCHANGED <<chunker, reconciler, evaluator, analyzer, extractor>>

\* check_document_text, lines 302-306.
ServiceCall ==
    /\ checker.pc = "call"
    /\ LET normalized_full_text == NormalizeNewlines(checker.document_text)
           chunks_info == ChunkText(normalized_full_text, DEFAULT_CHUNK_SIZE,
                                    DEFAULT_OVERLAP)
       IN  checker' =
             IF checker.document_text = << >> \/ chunks_info = << >>
             THEN [checker EXCEPT !.pc = "returned", !.result = << >>]
             ELSE [checker EXCEPT !.pc = "loop",
                                  !.normalized_full_text = normalized_full_text,
                                  !.chunks_info = chunks_info]
    /\ UNCHANGED <<chunker, reconciler, evaluator, analyzer, extractor>>

\* Lines 307-335: one iteration of the loop over the chunks.  What
\* _call_llm_for_correction raises is caught nowhere in check_document_text
\* and leaves it; after the last chunk the list is returned.
ServiceChunk ==
    /\ checker.pc = "loop"
    /\ checker.i < Len(checker.chunks_info)
    /\ \E outcome \in ChunkOutcomes(checker.document_text) :
          LET chunk_info == checker.chunks_info[checker.i + 1]
              call == CallLLMForCorrectionRaw(chunk_info.text_content, outcome)
              calls == Append(checker.calls,
                              [chunk_index |-> checker.i, outcome |-> outcome,
                               raised |-> call.raised, called |-> call.called,
                               how |-> call.how, chunk_issues |-> call.findings])
              issues == AppendIssues(
                            checker.all_issues_with_locations,
                            IssuesWithLocations(checker.normalized_full_text,
                                                checker.is_pdf_source, chunk_info,
                                                checker.i, call.findings))
          IN  checker' =
                IF call.raised
                THEN [checker EXCEPT !.pc = "raised", !.calls = calls]
                ELSE IF checker.i + 1 = Len(checker.chunks_info)
                THEN [checker EXCEPT !.pc = "returned", !.i = checker.i + 1,
                                     !.calls = calls,
                                     !.all_issues_with_locations = issues,
                                     !.result = issues]
                ELSE [checker EXCEPT !.i = checker.i + 1, !.calls = calls,
                                     !.all_issues_with_locations = issues]
    /\ UNCHANGED <<chunker, reconciler, evaluator, analyzer, extractor>>

ServiceNext == ServicePdfExtract \/ ServiceCall \/ ServiceChunk

SpecService == ServiceInit /\ [][ServiceNext]_vars

\* C11: a gateway failure on one chunk of check_document_text, reported as
\* an error string or raised by the call, does not abort the loop: the chunk
\* is passed, the remaining chunks are processed and the run returns.
C11_GatewayFailureDoesNotAbort ==
    \A k \in 1..Len(checker.calls) :
        checker.calls[k].outcome.kind \in {"config_error", "exception", "no_choices"} =>
            /\ ~checker.calls[k].raised
            /\ checker.i >= k

\* C12: the value check_document_text / check_pdf_document returns for a
\* document with a chunk whose gateway call failed or whose response was
\* uninterpretable differs from the value returned when the model reports
\* no issues for that chunk (the empty list as its response).
C12_FailureDistinguishedFromNoIssues ==
    LET RanWithoutAnswer(call) ==
            call.called /\ ~call.raised /\ call.how # "processed"
    IN  (/\ checker.pc = "returned"
         /\ \E k \in 1..Len(checker.calls) : RanWithoutAnswer(checker.calls[k]))
            => checker.result #
                 CheckDocumentText(
                    checker.document_text, checker.is_pdf_source,
                    [k \in 1..Len(checker.calls) |->
                        IF RanWithoutAnswer(checker.calls[k]) THEN EmptyListOutcome
                        ELSE checker.calls[k].outcome]).value

\* The response of call k is a text from which lines 180-220 obtain no JSON
\* value: no span, an empty span, or a text json.loads rejects.
Unparseable(outcome) ==
    /\ outcome.kind = "content"
    /\ ~outcome.content.is_none
    /\ LET extracted == ExtractJson(outcome.content.text)
       IN  \/ extracted.status # "found"
           \/ ~JsonLoads(extracted.json_str).valid

\* The issues of the output that come from chunk i.
IssuesOfChunk(issues, i) ==
    {n \in 1..Len(issues) : issues[n].chunk_index = i}

\* C17: a chunk whose response cannot be parsed as JSON contributes no
\* finding, the call for it does not raise and the loop goes on: the
\* findings of the chunks processed before and after it are in the output.
C17_UnparseableChunkContributesNothing ==
    \A k \in 1..Len(checker.calls) :
        Unparseable(checker.calls[k].outcome) =>
            /\ ~checker.calls[k].raised
            /\ checker.calls[k].chunk_issues = << >>
            /\ checker.i >= k
            /\ IssuesOfChunk(checker.all_issues_with_locations, k - 1) = {}
            /\ \A j \in 1..checker.i :
                  Cardinality(IssuesOfChunk(checker.all_issues_with_locations, j - 1))
                      = Len(checker.calls[j].chunk_issues)

\* C17 witness: the response for the first of two chunks was prose without
\* JSON, and the run returned the finding of the second chunk.
C17_Witness ==
    /\ checker.pc = "returned"
    /\ Len(checker.calls) = 2
    /\ Unparseable(checker.calls[1].outcome)
    /\ Len(checker.result) = 1
    /\ checker.result[1].chunk_index = 1
    /\ checker.result[1].original_snippet = Teh

\* C18: a candidate that lacks a required field or has a malformed value is
\* skipped on its own: the findings returned for the chunk are those of the
\* well-formed candidates that are located, one for each, in the order of
\* the response, and no other.
C18_MalformedCandidateSkippedAlone ==
    \A k \in 1..Len(checker.calls) :
        LET call == checker.calls[k]
            chunk_text_content == checker.chunks_info[k].text_content
            content == call.outcome.content
            extracted == ExtractJson(content.text)
            findings == JsonLoads(extracted.json_str)
            items == IF /\ call.outcome.kind = "content"
                        /\ ~content.is_none
                        /\ extracted.status = "found"
                        /\ findings.valid
                        /\ findings.is_list
                     THEN findings.items ELSE << >>
            WellFormed(el) ==
                /\ el.shape = "object"
                /\ RequiredKeys \subseteq el.has
                /\ el.snippet.k = "str"
                /\ IntOf(el.start).error = ""
                /\ IntOf(el.end).error = ""
            Kept(el) ==
                /\ WellFormed(el)
                /\ ReconcileOffsets(chunk_text_content, IntOf(el.start).n,
                                    IntOf(el.end).n, el.snippet.s).located
            kept == SelectSeq(items, Kept)
        IN  ~call.raised =>
                /\ Len(call.chunk_issues) = Len(kept)
                /\ \A n \in 1..Len(kept) :
                      /\ call.chunk_issues[n].suggestion = kept[n].suggestion
                      /\ call.chunk_issues[n].original_snippet_text = kept[n].snippet.s

\* C19: check_document_text calls the model once per chunk, in chunk order,
\* and returns the findings concatenated in chunk order: chunk_index does
\* not decrease along the output, the findings of a chunk keep the order of
\* the model, and none is removed or merged as a duplicate.
C19_OneCallPerChunkConcatenated ==
    LET issues == checker.all_issues_with_locations
    IN  /\ Len(checker.calls) <= Len(checker.chunks_info)
        /\ \A k \in 1..Len(checker.calls) :
              /\ checker.calls[k].chunk_index = k - 1
              /\ checker.calls[k].called
        /\ (checker.pc = "returned" /\ checker.chunks_info # << >>) =>
              /\ Len(checker.calls) = Len(checker.chunks_info)
              /\ checker.result = issues
        /\ \A n \in 1..(Len(issues) - 1) :
              issues[n].chunk_index <= issues[n + 1].chunk_index
        /\ \A k \in 1..checker.i :
              LET chunk_issues == checker.calls[k].chunk_issues
                  before == Cardinality({n \in 1..Len(issues) :
                                            issues[n].chunk_index < k - 1})
                  start_offset_abs == checker.chunks_info[k].start_offset_abs
              IN  /\ Cardinality(IssuesOfChunk(issues, k - 1)) = Len(chunk_issues)
                  /\ \A n \in 1..Len(chunk_issues) :
                        /\ issues[before + n].chunk_index = k - 1
                        /\ issues[before + n].suggestion = chunk_issues[n].suggestion
                        /\ issues[before + n].original_snippet
                              = chunk_issues[n].original_snippet_text
                        /\ issues[before + n].char_offset_start_in_doc
                              = start_offset_abs + chunk_issues[n].start_offset_in_chunk
                        /\ issues[before + n].char_offset_end_in_doc
                              = start_offset_abs + chunk_issues[n].end_offset_in_chunk

\* C19 witness: the error "teh" lies in the overlap of two chunks, the model
\* reported it for both, and the run returned it twice, for chunk 0 and for
\* chunk 1, at the same place of the document.
C19_Witness ==
    /\ checker.pc = "returned"
    /\ checker.document_text = OverlapDoc
    /\ Len(checker.calls) = 2
    /\ Len(checker.result) = 2
    /\ checker.result[1].chunk_index = 0
    /\ checker.result[2].chunk_index = 1
    /\ checker.result[1].char_offset_start_in_doc = 5990
    /\ checker.result[2].char_offset_start_in_doc = 5990
    /\ checker.result[1].original_snippet = checker.result[2].original_snippet

\* C20: for text of a PDF source, and for every call through
\* check_pdf_document, every finding has line_number -1 and no
\* line_with_error; for other text every finding has line_number 1 + the
\* number of newlines of the normalized document before
\* char_offset_start_in_doc, and line_with_error the trimmed line that holds
\* that offset.
C20_LineInformationBySourceType ==
    /\ \A n \in 1..Len(checker.all_issues_with_locations) :
          LET issue == checker.all_issues_with_locations[n]
              text == checker.normalized_full_text
              offset == issue.char_offset_start_in_doc
              newlines == {p \in 0..(Len(text) - 1) : text[p + 1] = "\n"}
              before == {p \in newlines : p < offset}
              after == {p \in newlines : p >= offset}
              first == IF before = {} THEN 0 ELSE SetMax(before) + 1
              last == IF after = {} THEN Len(text) ELSE SetMin(after)
              line == [p \in 1..(last - first) |-> text[first + p]]
          IN  IF checker.is_pdf_source \/ checker.entry = "check_pdf_document"
              THEN /\ issue.line_number = -1
                   /\ issue.line_with_error = NoneValue
              ELSE /\ issue.line_number
                        = 1 + Cardinality(before)
                   /\ issue.line_number >= 1
                   /\ issue.line_with_error = Some(Strip(line))
    /\ (checker.pc = "returned" /\ checker.entry = "check_pdf_document") =>
          \A n \in 1..Len(checker.result) :
              /\ checker.result[n].line_number = -1
              /\ checker.result[n].line_with_error = NoneValue

\* C20 witness: a run over text that is not of a PDF returned a finding on
\* the second line of the document, at the start of the line "teh teh".
C20_Witness ==
    /\ checker.pc = "returned"
    /\ ~checker.is_pdf_source
    /\ checker.entry = "check_document_text"
    /\ \E n \in 1..Len(checker.result) :
          /\ checker.result[n].line_number = 2
          /\ checker.result[n].line_with_error
                = Some(<<"t", "e", "h", " ", "t", "e", "h">>)
          /\ checker.result[n].char_offset_start_in_doc = 2


-----------------------------------------------------------------------------
(* SpellCheckingService._call_llm_for_correction: the JSON text taken from *)
(* a response                                                              *)

\* Bounds of the text generated before and after the body of a response.
MaxLeadLen == 2

MaxTrailLen == 1

\* The sequences of at most n units with marks of WrapMarks.
WrapsUpTo(n) ==
    LET
        \* The marks and the prose a response may hold around its body.
        WrapMarks == {"text", " ", "[", "]", "{", "}", "fence_json", "fence"}
    IN
    {[i \in 1..Len(marks) |-> Unit(marks[i])] : marks \in TextsUpTo(WrapMarks, n)}

\* A response: nothing or a list with one candidate for "teh", inside any
\* marks and prose.
ResponseInit ==
    /\ \E lead \in WrapsUpTo(MaxLeadLen), trail \in WrapsUpTo(MaxTrailLen),
          body \in {<< >>, ListText(<<TehAt(0, "fix1")>>)} :
            checker = [pc |-> "respond",
                       chunk_text_content |-> Teh,
                       lead |-> lead, body |-> body, trail |-> trail,
                       raw_response |-> lead \o body \o trail,
                       extracted |-> ExtractJson(<< >>),
                       call |-> CallLLMForCorrectionRaw(Teh, ContentOutcome(NoneValue))]
    /\ chunker = Idle
    /\ reconciler = Idle
    /\ evaluator = Idle
    /\ analyzer = Idle
    /\ extractor = Idle

\* _call_llm_for_correction on the chunk, the gateway answering with the
\* response: the text of lines 180-212, and what the call returns.
Respond ==
    /\ checker.pc = "respond"
    /\ checker' = [checker EXCEPT
                      !.pc = "done",
                      !.extracted = ExtractJson(checker.raw_response),
                      !.call = CallLLMForCorrectionRaw(
                                  checker.chunk_text_content,
                                  ContentOutcome(Some(checker.raw_response)))]
    /\ UNCHANGED <<chunker, reconciler, evaluator, analyzer, extractor>>

SpecResponse == ResponseInit /\ [][Respond]_vars

\* C25: the JSON text of a response is (1) the content of a fenced json
\* block whenever the response holds one, whatever brackets or braces stand
\* elsewhere; (2) otherwise the span from the first "[" or "{", whichever
\* comes first, to the last "]" or "}" respectively; (3) otherwise there is
\* none and the chunk yields no findings.  A valid JSON array inside prose
\* without brackets or braces is taken and parsed.
C25_JsonTextExtractionOrder ==
    checker.pc = "done" =>
        LET raw == checker.raw_response
            fence_marks == {"fence_json", "fence"}
            blocks == {pq \in (1..Len(raw)) \X (1..Len(raw)) :
                          /\ pq[1] < pq[2]
                          /\ raw[pq[1]].tok = "fence_json"
                          /\ raw[pq[2]].tok \in fence_marks
                          /\ \A k \in 1..(pq[1] - 1) : raw[k].tok # "fence_json"
                          /\ \A k \in (pq[1] + 1)..(pq[2] - 1) :
                                raw[k].tok \notin fence_marks}
            openers == {k \in 1..Len(raw) : raw[k].tok \in {"[", "{"}}
            first_open == SetMin(openers)
            closing == IF raw[first_open].tok = "[" THEN "]" ELSE "}"
            closers == {k \in 1..Len(raw) : k > first_open /\ raw[k].tok = closing}
            prose == {"text", " "}
        IN  /\ blocks # {} =>
                \E pq \in blocks :
                    /\ checker.extracted.json_str
                          = StripUnits(SubSeq(raw, pq[1] + 1, pq[2] - 1))
                    /\ checker.extracted.status
                          = IF checker.extracted.json_str = << >>
                            THEN "empty" ELSE "found"
            /\ (blocks = {} /\ openers # {} /\ closers # {}) =>
                    /\ checker.extracted.status = "found"
                    /\ checker.extracted.json_str
                          = SubSeq(raw, first_open, SetMax(closers))
            /\ (blocks = {} /\ (openers = {} \/ closers = {})) =>
                    /\ checker.extracted.status = "no_markers"
                    /\ ~checker.call.raised
                    /\ checker.call.findings = << >>
            /\ (/\ checker.body # << >>
                /\ \A k \in 1..Len(checker.lead) : checker.lead[k].tok \in prose
                /\ \A k \in 1..Len(checker.trail) : checker.trail[k].tok \in prose) =>
                    /\ checker.call.how = "processed"
                    /\ Len(checker.call.findings) = 1
                    /\ checker.call.findings[1].suggestion = "fix1"

\* C25 witness: the response holds brackets before a fenced json block in
\* which the list stands: the list of the block was taken and its finding
\* returned.
C25_Witness ==
    /\ checker.pc = "done"
    /\ checker.lead = <<Unit("["), Unit("fence_json")>>
    /\ checker.body # << >>
    /\ checker.trail = <<Unit("fence")>>
    /\ checker.extracted.json_str = checker.body
    /\ Len(checker.call.findings) = 1

-----------------------------------------------------------------------------
(* services/reviewer_feedback_service.py: generate_feedback                *)

\* The one record of the list generate_feedback returns, lines 139-148,
\* 153-162 and 167-176; the other keys have the same values in all three.
FeedbackItem(type, original_snippet, suggestion, explanation) ==
    [type |-> type, service_name |-> "Expert Reviewer Feedback",
     original_snippet |-> original_snippet, suggestion |-> suggestion,
     explanation |-> explanation, line_number |-> -1,
     char_offset_start_in_doc |-> 0, line_with_error |-> NoneValue]

\* Line 152: not feedback_text or feedback_text.startswith("Error:")
FeedbackFailed(feedback_text) ==
    \/ feedback_text = << >>
    \/ StartsWith(feedback_text, <<"E", "r", "r", "o", "r", ":">>)

\* Bound of the generated proposal texts.
MaxProposalLen == 2

FeedbackInit ==
    LET
        \* The texts the model may answer a request for feedback with.
        FeedbackTexts ==
            {lead \o head \o trail :
                lead \in {<< >>, <<" ">>},
                head \in {<< >>, <<"o", "k">>, <<"E", "r", "r", "o", "r", ":">>,
                          <<"E", "r", "r", "o", "r", ":", " ", "x">>,
                          <<"E", "r", "r", "o", "r">>,
                          <<"e", "r", "r", "o", "r", ":">>,
                          <<"N", "o", " ", "E", "r", "r", "o", "r", ":">>},
                trail \in {<< >>, <<"\n">>}}
    IN
    /\ \E proposal_text \in TextsUpTo({"a", " ", "\n"}, MaxProposalLen),
          outcome \in {ContentOutcome(Some(t)) : t \in FeedbackTexts}
                        \cup {ContentOutcome(NoneValue), NoChoicesOutcome,
                              ExceptionOutcome, ConfigErrorOutcome} :
            evaluator = [pc |-> "enter", proposal_text |-> proposal_text,
                         proposal_filename |-> <<"p", ".", "p", "d", "f">>,
                         outcome |-> outcome, queries |-> 0,
                         feedback_text |-> << >>, returned |-> << >>]
    /\ chunker = Idle
    /\ reconciler = Idle
    /\ checker = Idle
    /\ analyzer = Idle
    /\ extractor = Idle

\* Lines 138-148: a blank proposal text is answered without a call.
FeedbackEnter ==
    /\ evaluator.pc = "enter"
    /\ evaluator' =
          IF Strip(evaluator.proposal_text) = << >>
          THEN [evaluator EXCEPT
                  !.pc = "returned",
                  !.returned =
                      <<FeedbackItem(
                          "reviewer_feedback_error", evaluator.proposal_filename,
                          <<"N", "/", "A">>,
                          <<"P", "r", "o", "p", "o", "s", "a", "l",
                            " ", "t", "e", "x", "t", " ", "w", "a",
                            "s", " ", "e", "m", "p", "t", "y", " ",
                            "o", "r", " ", "c", "o", "n", "t", "a",
                            "i", "n", "e", "d", " ", "o", "n", "l",
                            "y", " ", "w", "h", "i", "t", "e", "s",
                            "p", "a", "c", "e", ".">>)>>]
          ELSE [evaluator EXCEPT !.pc = "call"]
    /\ UNCHANGED <<chunker, reconciler, checker, analyzer, extractor>>

\* Line 150, _call_llm_for_feedback (lines 96-118): query is called once and
\* its value stripped; the ValueError of query leaves generate_feedback, and
\* so does the AttributeError of None.strip() at line 118.
FeedbackCall ==
    /\ evaluator.pc = "call"
    /\ LET asked == Query(evaluator.outcome)
       IN  evaluator' =
              IF asked.raised \/ asked.value.is_none
              THEN [evaluator EXCEPT !.pc = "raised",
                                     !.queries = evaluator.queries + 1]
              ELSE [evaluator EXCEPT !.pc = "answered",
                                     !.queries = evaluator.queries + 1,
                                     !.feedback_text = Strip(asked.value.text)]
    /\ UNCHANGED <<chunker, reconciler, checker, analyzer, extractor>>

\* Lines 152-176: the error record or the feedback record.
FeedbackReturn ==
    /\ evaluator.pc = "answered"
    /\ evaluator' =
          [evaluator EXCEPT
              !.pc = "returned",
              !.returned =
                  IF FeedbackFailed(evaluator.feedback_text)
                  THEN <<FeedbackItem(
                            "reviewer_feedback_error", evaluator.proposal_filename,
                            <<"N", "/", "A">>,
                            <<"F", "a", "i", "l", "e", "d", " ",
                              "t", "o", " ", "g", "e", "t", " ",
                              "f", "e", "e", "d", "b", "a", "c",
                              "k", " ", "f", "r", "o", "m", " ",
                              "L", "L", "M", ".", " ", "R", "e",
                              "s", "p", "o", "n", "s", "e", ":",
                              " ">>
                                \o evaluator.feedback_text)>>
                  ELSE <<FeedbackItem(
                            "reviewer_feedback",
                            <<"O", "v", "e", "r", "a", "l", "l",
                              " ", "f", "e", "e", "d", "b", "a",
                              "c", "k", " ", "f", "o", "r", " ">>
                                \o evaluator.proposal_filename,
                            evaluator.feedback_text,
                            <<"T", "h", "e", " ", "f", "e", "e",
                              "d", "b", "a", "c", "k", " ", "a",
                              "b", "o", "v", "e", " ", "w", "a",
                              "s", " ", "g", "e", "n", "e", "r",
                              "a", "t", "e", "d", " ", "b", "y",
                              " ", "a", "n", " ", "A", "I", " ",
                              "e", "x", "p", "e", "r", "t", " ",
                              "r", "e", "v", "i", "e", "w", "e",
                              "r", " ", "m", "o", "d", "e", "l",
                              ".">>)>>]
    /\ UNCHANGED <<chunker, reconciler, checker, analyzer, extractor>>

FeedbackNext == FeedbackEnter \/ FeedbackCall \/ FeedbackReturn

SpecFeedback == FeedbackInit /\ [][FeedbackNext]_vars

\* C29: generate_feedback always returns exactly one record; its type is
\* reviewer_feedback_error when the proposal text is blank, and then no call
\* of the LLM is made, and when the call failed, for each of the values
\* query returns on a failure: an empty text, its message that no response
\* was received, its message of an error during the API call; a record of
\* type reviewer_feedback carries what the model wrote.
C29_ErrorRecordForEveryFailure ==
    /\ evaluator.pc # "raised"
    /\ evaluator.pc = "returned" =>
          /\ Len(evaluator.returned) = 1
          /\ Strip(evaluator.proposal_text) = << >> =>
                /\ evaluator.returned[1].type = "reviewer_feedback_error"
                /\ evaluator.queries = 0
          /\ (/\ Strip(evaluator.proposal_text) # << >>
              /\ \/ evaluator.outcome.kind \in {"no_choices", "exception"}
                 \/ Strip(evaluator.outcome.content.text) = << >>) =>
                evaluator.returned[1].type = "reviewer_feedback_error"
          /\ evaluator.returned[1].type = "reviewer_feedback" =>
                /\ evaluator.outcome.kind = "content"
                /\ evaluator.returned[1].suggestion
                      = Strip(evaluator.outcome.content.text)

-----------------------------------------------------------------------------
(* services/analysis_service.py: run_analysis_stream, with the subprocess  *)
(* it starts (python main.py) and the stderr pipe between them             *)

\* An event of the stream: the type of its JSON object, and what tells the
\* messages of the log events apart.
StreamEvent(type, message) == [type |-> type, message |-> message]

\* Lines 161-190: the event that follows the end of the subprocess.
TerminalEvent(returncode, stdout_data, stdout_valid) ==
    IF returncode # 0 THEN StreamEvent("error", "failed")
    ELSE IF stdout_data > 0
    THEN IF stdout_valid THEN StreamEvent("result", "")
         ELSE StreamEvent("error", "not_json")
    ELSE StreamEvent("log", "no_data")

\* _build_analysis_command, lines 18-88: the command, or the ValueError of
\* get_local_llm_config (config.py lines 33-38) when the provider is
\* 'local' and LOCAL_LLM_API_KEY is not set.  A path stands for its
\* resolved text; proposals_dir_path is a Path, as its type says.
BuildAnalysisCommand(call_pdf_path, selected_proposal_filenames, questions_file_path, analyze_proposal_opt, reviewer_feedback_opt, current_provider, local_llm_api_key) ==
    LET base_command == <<"python", "main.py", "--output-format", "json">>
        call == IF call_pdf_path THEN <<"--call-pdf", "call_pdf_path">> ELSE << >>
        proposals ==
            IF ~selected_proposal_filenames.is_none
                    /\ Len(selected_proposal_filenames.text) = 1
            THEN <<"--proposal-pdf", selected_proposal_filenames.text[1],
                   "--proposals-dir", "proposals_dir_path">>
            ELSE <<"--proposals-dir", "proposals_dir_path">>
        questions == IF questions_file_path
                     THEN <<"--questions-file", "questions_file_path">> ELSE << >>
        analyze == IF ~analyze_proposal_opt THEN <<"--no-analyze-proposal">> ELSE << >>
        feedback == IF reviewer_feedback_opt THEN <<"--reviewer-feedback">> ELSE << >>
        provider == <<"--llm-provider", current_provider>>
        local == IF current_provider = "local"
                 THEN <<"--local-llm-url", "base_url", "--local-llm-model",
                        "model_name", "--local-llm-api-key", "api_key">>
                 ELSE << >>
    IN  IF current_provider = "local" /\ ~local_llm_api_key
        THEN [error |-> "ValueError", command |-> << >>]
        ELSE [error |-> "",
              command |-> base_command \o call \o proposals \o questions \o analyze
                            \o feedback \o provider \o local]

\* What python main.py writes to stderr, whatever its arguments: main.py
\* does not compile (the body of the if of line 54 is not indented, line
\* 55), so the interpreter prints the location, the source line, the caret
\* and the IndentationError, writes nothing to stdout and exits with 1.
MainPyTraceback == <<"file", "source", "caret", "IndentationError">>

\* A call of run_analysis_stream: its arguments (a path given or None, the
\* selected file names, the two options, a logger or None) and the
\* environment read by config.py (LLM_PROVIDER, LOCAL_LLM_API_KEY set or
\* not).  Nothing has run yet: a generator runs from its first next().
StreamInit ==
    /\ \E call_pdf_path \in BOOLEAN,
          questions_file_path \in BOOLEAN,
          selected_proposal_filenames \in
              {NoneValue, Some(<< >>), Some(<<"p.pdf">>), Some(<<"p.pdf", "q.pdf">>)},
          analyze_proposal_opt \in BOOLEAN,
          reviewer_feedback_opt \in BOOLEAN,
          logger \in BOOLEAN,
          current_provider \in {"openai", "local"},
          local_llm_api_key \in BOOLEAN :
            analyzer = [pc |-> "start",
                        call_pdf_path |-> call_pdf_path,
                        questions_file_path |-> questions_file_path,
                        selected_proposal_filenames |-> selected_proposal_filenames,
                        analyze_proposal_opt |-> analyze_proposal_opt,
                        reviewer_feedback_opt |-> reviewer_feedback_opt,
                        logger |-> logger,
                        current_provider |-> current_provider,
                        local_llm_api_key |-> local_llm_api_key,
                        command |-> << >>,
                        raised |-> "",
                        events |-> << >>,
                        child |-> "none",
                        stderr_left |-> << >>,
                        exit_code |-> -1,
                        stderr_pipe |-> << >>,
                        stdout_data |-> 0,
                        stdout_valid |-> FALSE,
                        returncode |-> -1]
    /\ chunker = Idle
    /\ reconciler = Idle
    /\ checker = Idle
    /\ evaluator = Idle
    /\ extractor = Idle

\* Lines 104-115, the first next() of the generator: the command is built
\* and the start event yielded; the subprocess is not started yet.  An
\* exception of _build_analysis_command leaves the generator before any
\* event.
StreamStart ==
    /\ analyzer.pc = "start"
    /\ LET built == BuildAnalysisCommand(analyzer.call_pdf_path,
                                         analyzer.selected_proposal_filenames,
                                         analyzer.questions_file_path,
                                         analyzer.analyze_proposal_opt,
                                         analyzer.reviewer_feedback_opt,
                                         analyzer.current_provider,
                                         analyzer.local_llm_api_key)
       IN  IF built.error # ""
           THEN analyzer' = [analyzer EXCEPT !.pc = "raised", !.raised = built.error]
           ELSE analyzer' = [analyzer EXCEPT
                               !.pc = "after_start_event",
                               !.command = built.command,
                               !.events = Append(analyzer.events,
                                                 StreamEvent("log", "start"))]
    /\ UNCHANGED <<chunker, reconciler, checker, evaluator, extractor>>

\* Lines 117-124, when the generator is resumed after the start event:
\* subprocess.Popen starts python main.py with its two pipes.
StreamPopen ==
    /\ analyzer.pc = "after_start_event"
    /\ analyzer' = [analyzer EXCEPT
                      !.pc = "read_stderr",
                      !.child = "running",
                      !.stderr_left = MainPyTraceback,
                      !.exit_code = 1]
    /\ UNCHANGED <<chunker, reconciler, checker, evaluator, extractor>>

\* The subprocess writes the next line of its traceback to stderr.
ChildWriteStderr ==
    /\ analyzer.child = "running"
    /\ analyzer.stderr_left # << >>
    /\ analyzer' = [analyzer EXCEPT
                      !.stderr_left = Tail(analyzer.stderr_left),
                      !.stderr_pipe = Append(analyzer.stderr_pipe,
                                             Head(analyzer.stderr_left))]
    /\ UNCHANGED <<chunker, reconciler, checker, evaluator, extractor>>

\* The subprocess exits when it has written everything, which closes its
\* ends of the pipes.
ChildExit ==
    /\ analyzer.child = "running"
    /\ analyzer.stderr_left = << >>
    /\ analyzer' = [analyzer EXCEPT !.child = "exited"]
    /\ UNCHANGED <<chunker, reconciler, checker, evaluator, extractor>>

\* Lines 128-146: a line is read from stderr; a blank line is passed, a
\* PROGRESS: line yields a progress event, another line a log event.
ReadStderr ==
    /\ analyzer.pc = "read_stderr"
    /\ analyzer.stderr_pipe # << >>
    /\ LET line == Head(analyzer.stderr_pipe)
       IN  analyzer' = [analyzer EXCEPT
                          !.stderr_pipe = Tail(analyzer.stderr_pipe),
                          !.events =
                              IF line = "blank" THEN analyzer.events
                              ELSE IF line = "progress"
                              THEN Append(analyzer.events,
                                          StreamEvent("progress", "stderr"))
                              ELSE Append(analyzer.events,
                                          StreamEvent("log", "stderr"))]
    /\ UNCHANGED <<chunker, reconciler, checker, evaluator, extractor>>

\* Lines 128 and 147: readline returns '' at the end of stderr, which comes
\* when the subprocess has closed it, and the loop ends.
CloseStderr ==
    /\ analyzer.pc = "read_stderr"
    /\ analyzer.stderr_pipe = << >>
    /\ analyzer.child = "exited"
    /\ analyzer' = [analyzer EXCEPT !.pc = "communicate"]
    /\ UNCHANGED <<chunker, reconciler, checker, evaluator, extractor>>

\* Lines 149-159: communicate reads stdout to its end, on which the
\* subprocess has written nothing, and waits for the exit; stderr is closed
\* and gives no text, so no event follows with or without a logger.
Communicate ==
    /\ analyzer.pc = "communicate"
    /\ analyzer.child = "exited"
    /\ analyzer' = [analyzer EXCEPT
                      !.pc = "outcome",
                      !.stdout_data = 0,
                      !.returncode = analyzer.exit_code]
    /\ UNCHANGED <<chunker, reconciler, checker, evaluator, extractor>>

\* Lines 161-190: the outcome is yielded.
StreamOutcome ==
    /\ analyzer.pc = "outcome"
    /\ analyzer' = [analyzer EXCEPT
                      !.pc = "end",
                      !.events = Append(
                                    analyzer.events,
                                    TerminalEvent(analyzer.returncode,
                                                  analyzer.stdout_data,
                                                  analyzer.stdout_valid))]
    /\ UNCHANGED <<chunker, reconciler, checker, evaluator, extractor>>

\* Line 192: the end of the stream is yielded.
StreamEnd ==
    /\ analyzer.pc = "end"
    /\ analyzer' = [analyzer EXCEPT
                      !.pc = "ended",
                      !.events = Append(analyzer.events,
                                        StreamEvent("stream_end", ""))]
    /\ UNCHANGED <<chunker, reconciler, checker, evaluator, extractor>>

StreamNext ==
    \/ StreamStart
    \/ StreamPopen
    \/ ChildWriteStderr
    \/ ChildExit
    \/ ReadStderr
    \/ CloseStderr
    \/ Communicate
    \/ StreamOutcome
    \/ StreamEnd

\* The generator is run to its end by the one who reads the stream, and the
\* subprocess runs: a step that is possible is taken.
SpecStream == StreamInit /\ [][StreamNext]_vars /\ WF_vars(StreamNext)

\* C30: every stream starts with the log event of the start and ends with
\* one stream_end event, its last; before it stands one outcome: an error
\* event when the subprocess exits non-zero or its stdout is not valid JSON,
\* a result event when it exits zero with valid JSON, the log event of no
\* data when it exits zero with an empty stdout; no stream has a result and
\* an error event; the events relayed from stderr precede the outcome.  A
\* stream is over when the generator has returned or raised.
C30_StreamStartsAndEndsOnce ==
    LET events == analyzer.events
        Positions(types) == {k \in 1..Len(events) : events[k].type \in types}
        outcomes == {k \in 1..Len(events) :
                        \/ events[k].type \in {"error", "result"}
                        \/ events[k] = StreamEvent("log", "no_data")}
        relayed == {k \in 1..Len(events) : events[k].message = "stderr"}
        outcome == events[Len(events) - 1]
    IN      analyzer.pc # "start" =>
                /\ events # << >>
                /\ events[1] = StreamEvent("log", "start")
                /\ Cardinality(outcomes) <= 1
                /\ Positions({"result"}) = {} \/ Positions({"error"}) = {}
                /\ \A k \in relayed : \A o \in outcomes : k < o
                /\ Positions({"stream_end"}) \subseteq {Len(events)}
                /\ analyzer.pc \in {"ended", "raised"} =>
                      /\ Positions({"stream_end"}) = {Len(events)}
                      /\ outcomes = {Len(events) - 1}
                      /\ (analyzer.returncode # 0
                            \/ (analyzer.stdout_data > 0 /\ ~analyzer.stdout_valid))
                            => outcome.type = "error"
                      /\ (/\ analyzer.returncode = 0
                          /\ analyzer.stdout_data > 0
                          /\ analyzer.stdout_valid) => outcome.type = "result"
                      /\ (analyzer.returncode = 0 /\ analyzer.stdout_data = 0)
                            => outcome = StreamEvent("log", "no_data")

=============================================================================
